---- MODULE Spec2Model ----
(***************************************************************************)
(* A model of the multi-level undo facility of src/nvim/undo.c: the undo   *)
(* tree (headers, entries, the three heads and the counters), the save     *)
(* protocol (u_save / u_savecommon), replay (u_undoredo), the navigator    *)
(* (u_undo, u_redo, undo_time, u_undo_and_forget) and the undo file        *)
(* (u_write_undo / u_read_undo), byte by byte.                             *)
(*                                                                         *)
(* Pointers to headers are header ids (0 is NULL); a header id is never    *)
(* handed out twice, so a pointer to a freed header stays recognisable.    *)
(* uh_walk and lastmark are not state: lastmark only grows, so a walk mark *)
(* left by an earlier operation never equals a mark of a later one, and    *)
(* each tree walk keeps its marks in a local function.                     *)
(* Named marks and the Visual region (opaque fixed-size records) and       *)
(* 'virtualedit' (uh_cursor_vcol is always -1) are left out.               *)
(***************************************************************************)
EXTENDS Integers, Sequences, FiniteSets, TLC

\* ------------------------------------------------------------------ bounds
\* Save operations (u_save followed by an edit, or "U") in one behaviour.
MaxSaves == 2
\* Lines in the buffer.
MaxLines == 2
\* Times the buffer is written.
MaxWrites == 1

\* ------------------------------------------------------- program constants
UH_CHANGED == 1
UH_EMPTYBUF == 2
UH_RELOAD == 4

\* The texts a line can hold: a text is its sequence of bytes.
Texts == {<<97>>, <<98>>}
EmptyText == << >>
\* b_u_line_ptr == NULL
NoLine == <<0>>

\* Header ids; 0 is the NULL pointer.  Every save allocates at most one header;
\* there is one header more for the "U" command and for the history of three
\* changes.
MaxHdr == MaxSaves + 1
HdrIds == 1 .. MaxHdr

VARIABLES
  lines,            \* buf->b_ml: the text of lines 1 .. ml_line_count
  ml_empty,         \* buf->b_ml.ml_flags & ML_EMPTY
  b_changed,        \* buf->b_changed
  w_cursor,         \* curwin->w_cursor
  uh,               \* the u_header_T objects, by id
  nalloc,           \* header ids handed out so far
  b_u_oldhead, b_u_newhead, b_u_curhead,
  b_u_synced, b_u_numhead,
  b_u_seq_last, b_u_seq_cur,
  b_u_save_nr_last, b_u_save_nr_cur,
  b_u_time_cur,
  b_u_line_ptr, b_u_line_lnum, b_u_line_colnr,
  undo_undoes,      \* static bool undo_undoes
  p_ul,             \* 'undolevels'
  cpo_u,            \* 'cpoptions' contains 'u'
  now,              \* time(NULL)
  nsaves,           \* history: save operations so far
  joinst,           \* history: 1 after :undojoin went through, 2 after the saves
                    \*   that followed it, else 0
  orig,             \* history: the text before the first change
  before,           \* history: per header, the text when it was created
  after,            \* history: per header, the text when its change was completed
  base,             \* history: per header, the change the buffer was at when it
                    \*   was created (a sequence number, 0 for the original text)
  written           \* history: the state the buffer was written in last

progvars == <<lines, ml_empty, b_changed, w_cursor, uh, nalloc,
              b_u_oldhead, b_u_newhead, b_u_curhead, b_u_synced, b_u_numhead,
              b_u_seq_last, b_u_seq_cur, b_u_save_nr_last, b_u_save_nr_cur,
              b_u_time_cur, b_u_line_ptr, b_u_line_lnum, b_u_line_colnr,
              undo_undoes>>
envvars == <<p_ul, cpo_u, now>>
histvars == <<nsaves, joinst, orig, before, after, base, written>>
vars == <<progvars, envvars, histvars>>

\* ----------------------------------------------------------------- helpers
Min(a, b) == IF a < b THEN a ELSE b
Max(a, b) == IF a > b THEN a ELSE b
HasFlag(f, bit) == (f \div bit) % 2 = 1
Reverse(q) == [i \in 1 .. Len(q) |-> q[Len(q) + 1 - i]]
RemoveAt(q, i) == SubSeq(q, 1, i - 1) \o SubSeq(q, i + 1, Len(q))

\* A header slot that is not (or no longer) an allocated header.
NoHdr == [live |-> FALSE, uh_next |-> 0, uh_prev |-> 0, uh_alt_next |-> 0,
          uh_alt_prev |-> 0, uh_seq |-> 0, uh_time |-> 0, uh_save_nr |-> 0,
          uh_flags |-> 0, uh_cursor |-> [lnum |-> 0, col |-> 0],
          uh_cursor_vcol |-> 0, uh_entry |-> << >>, uh_getbot_entry |-> 0,
          uh_extmark |-> << >>]

\* The program state as one record, so that the functions of undo.c can be
\* written as operators from state to state.  "ret" is the return value of the
\* last call, "cnt" the number of headers u_doit() applied, "uhpp" the cell a
\* u_header_T ** argument points to and "err" tells that an internal error
\* message (iemsg) was given.
St == [lines |-> lines, ml_empty |-> ml_empty, b_changed |-> b_changed,
       w_cursor |-> w_cursor, uh |-> uh, nalloc |-> nalloc,
       b_u_oldhead |-> b_u_oldhead, b_u_newhead |-> b_u_newhead,
       b_u_curhead |-> b_u_curhead, b_u_synced |-> b_u_synced,
       b_u_numhead |-> b_u_numhead, b_u_seq_last |-> b_u_seq_last,
       b_u_seq_cur |-> b_u_seq_cur, b_u_save_nr_last |-> b_u_save_nr_last,
       b_u_save_nr_cur |-> b_u_save_nr_cur, b_u_time_cur |-> b_u_time_cur,
       b_u_line_ptr |-> b_u_line_ptr, b_u_line_lnum |-> b_u_line_lnum,
       b_u_line_colnr |-> b_u_line_colnr, undo_undoes |-> undo_undoes,
       p_ul |-> p_ul, cpo_u |-> cpo_u, now |-> now,
       ret |-> "OK", cnt |-> 0, uhpp |-> 0, err |-> FALSE]

Commit(s) ==
  /\ lines' = s.lines
  /\ ml_empty' = s.ml_empty
  /\ b_changed' = s.b_changed
  /\ w_cursor' = s.w_cursor
  /\ uh' = s.uh
  /\ nalloc' = s.nalloc
  /\ b_u_oldhead' = s.b_u_oldhead
  /\ b_u_newhead' = s.b_u_newhead
  /\ b_u_curhead' = s.b_u_curhead
  /\ b_u_synced' = s.b_u_synced
  /\ b_u_numhead' = s.b_u_numhead
  /\ b_u_seq_last' = s.b_u_seq_last
  /\ b_u_seq_cur' = s.b_u_seq_cur
  /\ b_u_save_nr_last' = s.b_u_save_nr_last
  /\ b_u_save_nr_cur' = s.b_u_save_nr_cur
  /\ b_u_time_cur' = s.b_u_time_cur
  /\ b_u_line_ptr' = s.b_u_line_ptr
  /\ b_u_line_lnum' = s.b_u_line_lnum
  /\ b_u_line_colnr' = s.b_u_line_colnr
  /\ undo_undoes' = s.undo_undoes

\* ------------------------------------------------------------- the buffer
ml_line_count(s) == Len(s.lines)

\* get_undolevel(): the buffer-local value is not set, 'undolevels' is used.
get_undolevel(s) == s.p_ul

\* ml_delete(): deleting the only line leaves one empty line and sets ML_EMPTY.
ml_delete(s, lnum) ==
  IF Len(s.lines) = 1
    THEN [s EXCEPT !.lines = <<EmptyText>>, !.ml_empty = TRUE]
    ELSE [s EXCEPT !.lines = RemoveAt(s.lines, lnum)]

\* ml_append(): the new line goes below line lnum.
ml_append(s, lnum, text) ==
  [s EXCEPT !.lines = SubSeq(s.lines, 1, lnum) \o <<text>>
                        \o SubSeq(s.lines, lnum + 1, Len(s.lines)),
            !.ml_empty = FALSE]

ml_replace(s, lnum, text) ==
  [s EXCEPT !.lines = [s.lines EXCEPT ![lnum] = text], !.ml_empty = FALSE]

buf_is_empty(s) == Len(s.lines) = 1 /\ s.lines[1] = EmptyText

\* changed() / unchanged(): only b_changed is of interest here.
changed(s) == [s EXCEPT !.b_changed = TRUE]
unchanged(s) == [s EXCEPT !.b_changed = FALSE]

\* check_cursor(): the cursor is put on an existing line and column.
check_cursor(s) ==
  LET l == Max(1, Min(s.w_cursor.lnum, Len(s.lines)))
      maxcol == Max(0, Len(s.lines[l]) - 1)
  IN [s EXCEPT !.w_cursor = [lnum |-> l, col |-> Min(s.w_cursor.col, maxcol)]]

\* ------------------------------------------------------- freeing headers
\* u_freeentries(): uhp and its entries are freed; pointers to it are reset.
u_freeentries(s, uhp) ==
  [s EXCEPT !.b_u_curhead = IF s.b_u_curhead = uhp THEN 0 ELSE @,
            !.b_u_newhead = IF s.b_u_newhead = uhp THEN 0 ELSE @,
            !.uhpp = IF s.uhpp = uhp THEN 0 ELSE @,
            !.uh = [@ EXCEPT ![uhp] = NoHdr],
            !.b_u_numhead = @ - 1]

RECURSIVE SetNextOfAlts(_, _, _)
\* for (uhap = uhp->uh_prev.ptr; uhap != NULL; uhap = uhap->uh_alt_next.ptr)
\*   uhap->uh_next.ptr = uhp->uh_next.ptr;
SetNextOfAlts(s, uhap, nxt) ==
  IF uhap = 0 THEN s
  ELSE SetNextOfAlts([s EXCEPT !.uh[uhap].uh_next = nxt],
                     s.uh[uhap].uh_alt_next, nxt)

RECURSIVE u_freeheader(_, _), u_freebranch(_, _), FreeBranchLoop(_, _),
          FreeAllFromOldhead(_), FreeAltNext(_, _), FreeBranchStep(_, _)

\* if (uhp->uh_alt_next.ptr != NULL) u_freebranch(buf, uhp->uh_alt_next.ptr, uhpp);
FreeAltNext(s, uhp) ==
  IF s.uh[uhp].uh_alt_next # 0 THEN u_freebranch(s, s.uh[uhp].uh_alt_next) ELSE s

\* if (uhp->uh_alt_prev.ptr != NULL) uhp->uh_alt_prev.ptr->uh_alt_next.ptr = NULL;
CutAltPrev(s, uhp) ==
  IF s.uh[uhp].uh_alt_prev # 0
    THEN [s EXCEPT !.uh[s.uh[uhp].uh_alt_prev].uh_alt_next = 0]
    ELSE s

\* "Update the links in the list to remove the header": the side of uh_next.
UnlinkNext(s, uhp) ==
  IF s.uh[uhp].uh_next = 0
    THEN [s EXCEPT !.b_u_oldhead = s.uh[uhp].uh_prev]
    ELSE [s EXCEPT !.uh[s.uh[uhp].uh_next].uh_prev = s.uh[uhp].uh_prev]

\* "Update the links in the list to remove the header": the side of uh_prev.
UnlinkPrev(s, uhp) ==
  IF s.uh[uhp].uh_prev = 0
    THEN [s EXCEPT !.b_u_newhead = s.uh[uhp].uh_next]
    ELSE SetNextOfAlts(s, s.uh[uhp].uh_prev, s.uh[uhp].uh_next)

\* u_freeheader(): free one header and adjust the pointers.
u_freeheader(s, uhp) ==
  u_freeentries(
    UnlinkPrev(UnlinkNext(CutAltPrev(FreeAltNext(s, uhp), uhp), uhp), uhp), uhp)

\* while (buf->b_u_oldhead != NULL) u_freeheader(buf, buf->b_u_oldhead, uhpp);
FreeAllFromOldhead(s) ==
  IF s.b_u_oldhead = 0 THEN s
  ELSE FreeAllFromOldhead(u_freeheader(s, s.b_u_oldhead))

\* One round of the loop of u_freebranch(), after the alternates of tofree
\* were freed: next = tofree->uh_prev.ptr; u_freeentries(buf, tofree, uhpp);
FreeBranchStep(s, tofree) ==
  FreeBranchLoop(u_freeentries(s, tofree), s.uh[tofree].uh_prev)

\* The loop of u_freebranch() over next = tofree->uh_prev.ptr.
FreeBranchLoop(s, next) ==
  IF next = 0 THEN s ELSE FreeBranchStep(FreeAltNext(s, next), next)

\* u_freebranch(): free an alternate branch and any following alternate branches.
u_freebranch(s, uhp) ==
  IF uhp = s.b_u_oldhead THEN FreeAllFromOldhead(s)
  ELSE FreeBranchLoop(CutAltPrev(s, uhp), uhp)

\* ------------------------------------------------------------- u_getbot
\* u_get_headentry() == NULL: the undo list is corrupt (E439).
NoHeadEntry(s) == s.b_u_newhead = 0 \/ s.uh[s.b_u_newhead].uh_entry = << >>

\* u_getbot() without the correction for the lines that were added or deleted
\* since the save: ue_bot is taken to be where it was when the save was made.
u_getbot_NoExtra(s) ==
  IF NoHeadEntry(s) THEN [s EXCEPT !.err = TRUE]
  ELSE LET nh == s.b_u_newhead
           gi == s.uh[nh].uh_getbot_entry
           uep == s.uh[nh].uh_entry[gi]
           bot == uep.ue_top + uep.ue_size + 1
           s1 == IF gi = 0 THEN s
                 ELSE [s EXCEPT !.uh[nh].uh_entry[gi].ue_bot = bot,
                                !.uh[nh].uh_getbot_entry = 0]
       IN [s1 EXCEPT !.b_u_synced = TRUE]

\* u_getbot(): compute ue_bot of the previous u_save.
u_getbot(s) ==
  IF NoHeadEntry(s) THEN [s EXCEPT !.err = TRUE]
  ELSE LET nh == s.b_u_newhead
           gi == s.uh[nh].uh_getbot_entry
           uep == s.uh[nh].uh_entry[gi]
           extra == ml_line_count(s) - uep.ue_lcount
           bot == uep.ue_top + uep.ue_size + 1 + extra
           bad == bot < 1 \/ bot > ml_line_count(s)
           s1 == IF gi = 0 THEN s
                 ELSE [s EXCEPT !.uh[nh].uh_entry[gi].ue_bot =
                                   IF bad THEN uep.ue_top + 1 ELSE bot,
                                !.uh[nh].uh_getbot_entry = 0,
                                !.err = @ \/ bad]
       IN [s1 EXCEPT !.b_u_synced = TRUE]

\* ---------------------------------------------------------- u_savecommon
\* The ten last changes are checked for a save of the same line.
CoalesceScan == 10

RECURSIVE LastAlt(_, _)
\* while (uhfree->uh_alt_next.ptr != NULL) uhfree = uhfree->uh_alt_next.ptr;
LastAlt(s, uhfree) ==
  IF s.uh[uhfree].uh_alt_next = 0 THEN uhfree
  ELSE LastAlt(s, s.uh[uhfree].uh_alt_next)

RECURSIVE TrimLoop_OneEarly(_)
\* The loop that frees headers, starting one header too early: the header
\* about to be made is counted before it exists.
TrimLoop_OneEarly(s) ==
  IF ~(s.b_u_numhead + 1 >= get_undolevel(s) /\ s.b_u_oldhead # 0) THEN s
  ELSE LET uhfree == s.b_u_oldhead
       IN TrimLoop_OneEarly(
            IF uhfree = s.uhpp THEN u_freebranch(s, uhfree)
            ELSE IF s.uh[uhfree].uh_alt_next = 0 THEN u_freeheader(s, uhfree)
            ELSE u_freebranch(s, LastAlt(s, uhfree)))


RECURSIVE TrimLoop_OneHeader(_)
\* The loop that frees headers, freeing one header with u_freeheader() also
\* where the oldest alternate branch is to be freed as a whole.
TrimLoop_OneHeader(s) ==
  IF ~(s.b_u_numhead > get_undolevel(s) /\ s.b_u_oldhead # 0) THEN s
  ELSE LET uhfree == s.b_u_oldhead
       IN TrimLoop_OneHeader(
            IF uhfree = s.uhpp THEN u_freebranch(s, uhfree)
            ELSE IF s.uh[uhfree].uh_alt_next = 0 THEN u_freeheader(s, uhfree)
            ELSE u_freeheader(s, LastAlt(s, uhfree)))

RECURSIVE TrimLoop(_)
\* "free headers to keep the size right"; s.uhpp is old_curhead.
TrimLoop(s) ==
  IF ~(s.b_u_numhead > get_undolevel(s) /\ s.b_u_oldhead # 0) THEN s
  ELSE LET uhfree == s.b_u_oldhead
       IN TrimLoop(IF uhfree = s.uhpp THEN u_freebranch(s, uhfree)
                   ELSE IF s.uh[uhfree].uh_alt_next = 0 THEN u_freeheader(s, uhfree)
                   ELSE u_freebranch(s, LastAlt(s, uhfree)))

\* "need to create new entry": with 'undolevels' >= 0 a header is allocated,
\* it is header s.nalloc from here on.
AllocHeader(s) ==
  IF get_undolevel(s) >= 0
    THEN [s EXCEPT !.nalloc = @ + 1, !.uh[s.nalloc + 1] = [NoHdr EXCEPT !.live = TRUE]]
    ELSE s

\* "If we undid more than we redid, move the entry lists before and including
\* curbuf->b_u_curhead to an alternate branch."  s.uhpp is old_curhead.
DetachCurhead(s) ==
  IF s.b_u_curhead # 0
    THEN [s EXCEPT !.b_u_newhead = s.uh[s.b_u_curhead].uh_next,
                   !.b_u_curhead = 0, !.uhpp = s.b_u_curhead]
    ELSE [s EXCEPT !.uhpp = 0]

\* if (uhp == NULL): "no undo at all".  ret = "NOUNDO" stands for this early
\* "return OK".
NoUndoAtAll(s) ==
  [(IF s.uhpp # 0 THEN u_freebranch(s, s.uhpp) ELSE s)
     EXCEPT !.b_u_synced = FALSE, !.ret = "NOUNDO"]

\* The links of the new header uhp = s.nalloc.
LinkNew(s) ==
  [s EXCEPT !.uh[s.nalloc].uh_prev = 0,
            !.uh[s.nalloc].uh_next = s.b_u_newhead,
            !.uh[s.nalloc].uh_alt_next = s.uhpp,
            !.uh[s.nalloc].uh_alt_prev =
                IF s.uhpp # 0 THEN s.uh[s.uhpp].uh_alt_prev ELSE 0]

\* if (uhp->uh_alt_prev.ptr != NULL) uhp->uh_alt_prev.ptr->uh_alt_next.ptr = uhp;
LinkAltPrev(s) ==
  IF s.uhpp # 0 /\ s.uh[s.nalloc].uh_alt_prev # 0
    THEN [s EXCEPT !.uh[s.uh[s.nalloc].uh_alt_prev].uh_alt_next = s.nalloc]
    ELSE s

\* old_curhead->uh_alt_prev.ptr = uhp; b_u_oldhead follows.
LinkOldCurhead(s) ==
  IF s.uhpp # 0
    THEN [s EXCEPT !.uh[s.uhpp].uh_alt_prev = s.nalloc,
                   !.b_u_oldhead = IF @ = s.uhpp THEN s.nalloc ELSE @]
    ELSE s


\* u_savecommon() leaving uh_prev of the header before the new one as it is.
LinkNewhead_Skip(s) == s

\* if (buf->b_u_newhead != NULL) buf->b_u_newhead->uh_prev.ptr = uhp;
LinkNewhead(s) ==
  IF s.b_u_newhead # 0
    THEN [s EXCEPT !.uh[s.b_u_newhead].uh_prev = s.nalloc] ELSE s

\* The fields of the new header, and the new header becomes b_u_newhead.
FillHeader(s) ==
  [s EXCEPT !.b_u_seq_last = @ + 1,
            !.b_u_seq_cur = s.b_u_seq_last + 1,
            !.uh[s.nalloc].uh_seq = s.b_u_seq_last + 1,
            !.uh[s.nalloc].uh_time = s.now,
            !.uh[s.nalloc].uh_save_nr = 0,
            !.b_u_time_cur = s.now + 1,
            !.uh[s.nalloc].uh_entry = << >>,
            !.uh[s.nalloc].uh_getbot_entry = 0,
            !.uh[s.nalloc].uh_cursor = s.w_cursor,
            !.uh[s.nalloc].uh_cursor_vcol = -1,
            !.uh[s.nalloc].uh_flags = (IF s.b_changed THEN UH_CHANGED ELSE 0)
                                      + (IF s.ml_empty THEN UH_EMPTYBUF ELSE 0),
            !.b_u_newhead = s.nalloc,
            !.b_u_oldhead = IF @ = 0 THEN s.nalloc ELSE @,
            !.b_u_numhead = @ + 1]

\* What follows the loop that frees headers.
NewHeaderLink(s) ==
  IF get_undolevel(s) < 0 THEN NoUndoAtAll(s)
  ELSE FillHeader(LinkNewhead(LinkOldCurhead(LinkAltPrev(LinkNew(s)))))


\* NewHeader that frees no header when 'undolevels' is negative.
NewHeader_KeepTree(s) ==
  IF get_undolevel(s) < 0 THEN NoUndoAtAll(DetachCurhead(s))
  ELSE NewHeaderLink(TrimLoop(DetachCurhead(AllocHeader(s))))

\* The b_u_synced == true part of u_savecommon(): make a new header.
NewHeader(s) == NewHeaderLink(TrimLoop(DetachCurhead(AllocHeader(s))))


\* The search for an entry to re-use never gives up.
CoalesceGiveUp_Never(s, i, top) == FALSE

\* "If lines have been inserted/deleted we give up.  Also when the line was
\* included in a multi-line save."
CoalesceGiveUp(s, i, top) ==
  LET nh == s.b_u_newhead
      uep == s.uh[nh].uh_entry[i]
  IN \/ IF s.uh[nh].uh_getbot_entry # i
          THEN uep.ue_top + uep.ue_size + 1
                 # (IF uep.ue_bot = 0 THEN ml_line_count(s) + 1 ELSE uep.ue_bot)
          ELSE uep.ue_lcount # ml_line_count(s)
     \/ (uep.ue_size > 1 /\ top >= uep.ue_top
           /\ top + 2 <= uep.ue_top + uep.ue_size + 1)


\* No entry is ever found to re-use.
CoalesceFind_Never(s, i, top) == 0

RECURSIVE CoalesceFind(_, _, _)
\* The position (from 1) of the entry a single-line save of "top" can re-use,
\* 0 when there is none.
CoalesceFind(s, i, top) ==
  IF i > CoalesceScan \/ NoHeadEntry(s) \/ i > Len(s.uh[s.b_u_newhead].uh_entry) THEN 0
  ELSE IF CoalesceGiveUp(s, i, top) THEN 0
  ELSE LET uep == s.uh[s.b_u_newhead].uh_entry[i]
       IN IF uep.ue_size = 1 /\ uep.ue_top = top THEN i
          ELSE CoalesceFind(s, i + 1, top)

\* "It's not the last entry: get ue_bot for the last entry now.  Following
\* deleted/inserted lines go to the re-used entry."  Entry i becomes the first.
MoveEntryFirst(g, i) ==
  [g EXCEPT !.b_u_synced = FALSE,
            !.uh[g.b_u_newhead].uh_entry = <<@[i]>> \o RemoveAt(@, i)]

\* "The executed command may change the line count."
SetReusedBot(s, bot, newbot) ==
  IF newbot # 0 THEN [s EXCEPT !.uh[s.b_u_newhead].uh_entry[1].ue_bot = newbot]
  ELSE IF bot > ml_line_count(s)
    THEN [s EXCEPT !.uh[s.b_u_newhead].uh_entry[1].ue_bot = 0]
  ELSE [s EXCEPT !.uh[s.b_u_newhead].uh_entry[1].ue_lcount = ml_line_count(s),
                 !.uh[s.b_u_newhead].uh_getbot_entry = 1]

\* "If it's the same line we can skip saving it again": entry i is re-used.
CoalesceReuse(s, i, bot, newbot) ==
  SetReusedBot(IF i > 1 THEN MoveEntryFirst(u_getbot(s), i) ELSE s, bot, newbot)

\* "add lines in front of entry list".  cancelAt is the round of the copy
\* loop in which got_int is found set, -1 when it never is.
AddEntry(s, top, bot, newbot, reload, cancelAt) ==
  LET size == bot - top - 1
      nh == s.b_u_newhead
      later == newbot = 0 /\ ~(bot > ml_line_count(s))
      uep == [ue_top |-> top, ue_size |-> size,
              ue_bot |-> IF newbot # 0 THEN newbot ELSE 0,
              ue_lcount |-> IF later THEN ml_line_count(s) ELSE 0,
              ue_array |-> SubSeq(s.lines, top + 1, top + size)]
  IN IF size > 0 /\ cancelAt >= 0 /\ cancelAt < size
       \* u_freeentry(uep, i): uh_getbot_entry is left pointing to the freed entry
       THEN [s EXCEPT !.uh[nh].uh_getbot_entry = IF later THEN -1 ELSE @,
                      !.ret = "FAIL"]
       ELSE [s EXCEPT !.uh[nh].uh_entry = <<uep>> \o @,
                      !.uh[nh].uh_getbot_entry =
                          IF later THEN 1 ELSE IF @ > 0 THEN @ + 1 ELSE @,
                      !.uh[nh].uh_flags =
                          IF reload /\ ~HasFlag(@, UH_RELOAD) THEN @ + UH_RELOAD ELSE @,
                      !.b_u_synced = FALSE,
                      !.undo_undoes = FALSE,
                      !.ret = "OK"]

\* The save after a header was made, or none with 'undolevels' < 0.
SaveInNewHeader(h, top, bot, newbot, reload, cancelAt) ==
  IF h.ret = "NOUNDO" THEN [h EXCEPT !.ret = "OK"]
  ELSE AddEntry(h, top, bot, newbot, reload, cancelAt)

\* The save in the header that is still open; entry i > 0 can be re-used.
SaveInOpenHeader(s, i, top, bot, newbot, reload, cancelAt) ==
  IF i > 0 THEN [CoalesceReuse(s, i, bot, newbot) EXCEPT !.ret = "OK"]
  ELSE AddEntry(u_getbot(s), top, bot, newbot, reload, cancelAt)


\* u_savecommon() making a new header for every save, synced or not.
u_savecommon_AlwaysNew(s, top, bot, newbot, reload, cancelAt) ==
  IF ~reload /\ bot > ml_line_count(s) + 1 THEN [s EXCEPT !.ret = "FAIL"]
  ELSE SaveInNewHeader(NewHeader(s), top, bot, newbot, reload, cancelAt)

\* u_savecommon(): common code for the ways to save text before a change.
\* undo_allowed() holds and change_warning() does nothing.
u_savecommon(s, top, bot, newbot, reload, cancelAt) ==
  IF ~reload /\ bot > ml_line_count(s) + 1 THEN [s EXCEPT !.ret = "FAIL"]
  ELSE IF s.b_u_synced
    THEN SaveInNewHeader(NewHeader(s), top, bot, newbot, reload, cancelAt)
  ELSE IF get_undolevel(s) < 0 THEN [s EXCEPT !.ret = "OK"]
  ELSE SaveInOpenHeader(s, IF bot - top - 1 = 1 THEN CoalesceFind(s, 1, top) ELSE 0,
                        top, bot, newbot, reload, cancelAt)

\* u_clearline(): clear the line saved for the "U" command.
u_clearline(s) ==
  IF s.b_u_line_ptr = NoLine THEN s
  ELSE [s EXCEPT !.b_u_line_ptr = NoLine, !.b_u_line_lnum = 0]

\* u_saveline(): save the line "lnum" for the "U" command.
u_saveline(s, lnum) ==
  IF lnum = s.b_u_line_lnum THEN s
  ELSE IF lnum < 1 \/ lnum > ml_line_count(s) THEN s
  ELSE LET c == u_clearline(s)
       IN [c EXCEPT !.b_u_line_lnum = lnum,
                    !.b_u_line_colnr = IF c.w_cursor.lnum = lnum THEN c.w_cursor.col ELSE 0,
                    !.b_u_line_ptr = c.lines[lnum]]


\* u_save_buf that does not refuse a range with top >= bot.
u_save_buf_AnyTop(s, top, bot, cancelAt) ==
  IF bot > ml_line_count(s) + 1 THEN [s EXCEPT !.ret = "FAIL"]
  ELSE u_savecommon(IF top + 2 = bot THEN u_saveline(s, top + 1) ELSE s,
                    top, bot, 0, FALSE, cancelAt)

\* u_save_buf(): save the lines between "top" and "bot".
u_save_buf(s, top, bot, cancelAt) ==
  IF top >= bot \/ bot > ml_line_count(s) + 1 THEN [s EXCEPT !.ret = "FAIL"]
  ELSE u_savecommon(IF top + 2 = bot THEN u_saveline(s, top + 1) ELSE s,
                    top, bot, 0, FALSE, cancelAt)


\* u_undoline() after the save: the line and the saved line change places, and
\* so do the cursor column and the saved column.
SwapLine(s) ==
  LET lnum == s.b_u_line_lnum
      r == changed(ml_replace(s, lnum, s.b_u_line_ptr))
  IN check_cursor([r EXCEPT !.b_u_line_ptr = s.lines[lnum],
                            !.b_u_line_colnr = IF s.w_cursor.lnum = lnum
                                                 THEN s.w_cursor.col ELSE @,
                            !.w_cursor = [lnum |-> lnum, col |-> s.b_u_line_colnr]])

\* u_undoline that keeps the saved line instead of the line it replaces.
u_undoline_KeepsSaved(s) ==
  IF s.b_u_line_ptr = NoLine \/ s.b_u_line_lnum > ml_line_count(s)
    THEN [s EXCEPT !.ret = "BEEP"]
  ELSE LET s1 == u_savecommon(s, s.b_u_line_lnum - 1, s.b_u_line_lnum + 1, 0, FALSE, -1)
       IN IF s1.ret = "FAIL" THEN s1
          ELSE [SwapLine(s1) EXCEPT !.b_u_line_ptr = s.b_u_line_ptr]

\* u_undoline(): the "U" command; "U" can be undone with the next "U".
u_undoline(s) ==
  IF s.b_u_line_ptr = NoLine \/ s.b_u_line_lnum > ml_line_count(s)
    THEN [s EXCEPT !.ret = "BEEP"]
  ELSE LET s1 == u_savecommon(s, s.b_u_line_lnum - 1, s.b_u_line_lnum + 1, 0, FALSE, -1)
       IN IF s1.ret = "FAIL" THEN s1 ELSE SwapLine(s1)

\* u_sync(true): stop adding to the current entry list.
u_sync(s) ==
  IF s.b_u_synced THEN s
  ELSE IF get_undolevel(s) < 0 THEN [s EXCEPT !.b_u_synced = TRUE]
  ELSE [u_getbot(s) EXCEPT !.b_u_curhead = 0]

\* ------------------------------------------------------------ u_undoredo
MAXLNUM == 2147483647

RECURSIVE DeleteLoop_NoEmpty(_, _, _, _)
\* The delete loop without "empty_buffer = true" for the last line of the buffer.
DeleteLoop_NoEmpty(s, lnum, i, eb) ==
  IF i = 0 THEN [s |-> s, eb |-> FALSE]
  ELSE DeleteLoop_NoEmpty(ml_delete(s, lnum), lnum - 1, i - 1, eb)

RECURSIVE DeleteLoop(_, _, _, _)
\* "delete the lines between top and bot": i lines, from lnum backwards.
\* eb: the last line of the buffer was deleted (empty_buffer).
DeleteLoop(s, lnum, i, eb) ==
  IF i = 0 THEN [s |-> s, eb |-> eb]
  ELSE DeleteLoop(ml_delete(s, lnum), lnum - 1, i - 1, eb \/ ml_line_count(s) = 1)

RECURSIVE InsertLoop(_, _, _, _, _)
\* "insert the lines in u_array between top and bot"
InsertLoop(s, top, arr, i, eb) ==
  IF i > Len(arr) THEN s
  ELSE LET lnum == top + i - 1
       IN InsertLoop(IF eb /\ lnum = 0 THEN ml_replace(s, 1, arr[i])
                     ELSE ml_append(s, lnum, arr[i]),
                     top, arr, i + 1, eb)

RECURSIVE FirstDiff(_, _, _, _, _)
\* for (i = 0; i < newsize && i < oldsize; i++) if (strcmp(...) != 0) break;
FirstDiff(s, uep, top, oldsize, i) ==
  IF ~(i < uep.ue_size /\ i < oldsize) THEN i
  ELSE IF uep.ue_array[i + 1] # s.lines[top + 1 + i] THEN i
  ELSE FirstDiff(s, uep, top, oldsize, i + 1)

\* The lines of the entry are inserted where lines were deleted.
InsertAfterDelete(d, top, arr) == InsertLoop(d.s, top, arr, 1, d.eb)

\* One round of the loop over the entries of curhead: entry k of the list q.
\* a = [s, newlnum, newlist, fail].
UndoEntry(a, curhead, q, k) ==
  LET s == a.s
      uep == q[k]
      top == uep.ue_top
      bot == IF uep.ue_bot = 0 THEN ml_line_count(s) + 1 ELSE uep.ue_bot
  IN IF top > ml_line_count(s) \/ top >= bot \/ bot > ml_line_count(s) + 1
       THEN [a EXCEPT !.fail = TRUE, !.s = changed([s EXCEPT !.err = TRUE])]
       ELSE
         LET oldsize == bot - top - 1
             newsize == uep.ue_size
             hc == s.uh[curhead].uh_cursor
             i == FirstDiff(s, uep, top, oldsize, 0)
             c == IF ~(top < a.newlnum) THEN [cur |-> s.w_cursor, nl |-> a.newlnum]
                  ELSE IF hc.lnum >= top /\ hc.lnum <= top + newsize + 1
                    THEN [cur |-> hc, nl |-> hc.lnum - 1]
                  ELSE IF i = newsize /\ a.newlnum = MAXLNUM /\ k = Len(q)
                    THEN [cur |-> [s.w_cursor EXCEPT !.lnum = top + 1], nl |-> top]
                  ELSE IF i < newsize
                    THEN [cur |-> [s.w_cursor EXCEPT !.lnum = top + i + 1], nl |-> top + i]
                  ELSE [cur |-> s.w_cursor, nl |-> a.newlnum]
             newarray == SubSeq(s.lines, top + 1, bot - 1)
             nuep == [uep EXCEPT !.ue_size = oldsize, !.ue_array = newarray,
                                 !.ue_bot = top + newsize + 1]
         IN [a EXCEPT !.s = [InsertAfterDelete(DeleteLoop(s, bot - 1, oldsize, FALSE),
                                               top, uep.ue_array)
                               EXCEPT !.w_cursor = c.cur],
                      !.newlnum = c.nl,
                      !.newlist = <<nuep>> \o @]

RECURSIVE UndoEntries(_, _, _, _)
UndoEntries(a, curhead, q, k) ==
  IF k > Len(q) \/ a.fail THEN a
  ELSE UndoEntries(UndoEntry(a, curhead, q, k), curhead, q, k + 1)


\* UndoCursor without the final check_cursor().
UndoCursor_NoCheck(s, curhead) ==
  LET hc == s.uh[curhead].uh_cursor
      l1 == IF hc.lnum + 1 = s.w_cursor.lnum /\ s.w_cursor.lnum > 1
              THEN s.w_cursor.lnum - 1 ELSE s.w_cursor.lnum
      col == IF l1 <= ml_line_count(s) /\ hc.lnum = l1 THEN hc.col ELSE 0
  IN [s EXCEPT !.w_cursor = [lnum |-> l1, col |-> col]]

\* The cursor placement at the end of u_undoredo(); beginline() finds column 0.
UndoCursor(s, curhead) ==
  LET hc == s.uh[curhead].uh_cursor
      l1 == IF hc.lnum + 1 = s.w_cursor.lnum /\ s.w_cursor.lnum > 1
              THEN s.w_cursor.lnum - 1 ELSE s.w_cursor.lnum
      col == IF l1 <= ml_line_count(s) /\ hc.lnum = l1 THEN hc.col ELSE 0
  IN check_cursor([s EXCEPT !.w_cursor = [lnum |-> l1, col |-> col]])

\* "save the changed flag and ML_EMPTY of the buffer": the flags the header
\* gets for the next undo/redo.
NewFlags(s) ==
  (IF s.b_changed THEN UH_CHANGED ELSE 0)
  + (IF s.ml_empty THEN UH_EMPTYBUF ELSE 0)
  + (IF HasFlag(s.uh[s.b_u_curhead].uh_flags, UH_RELOAD) THEN UH_RELOAD ELSE 0)

\* "u_undo: line numbers wrong": the entries already replayed are linked into
\* newlist; uh_entry still points to the first one, which is now the end of
\* that list.
UndoFailed(a, curhead) ==
  IF Len(a.newlist) = 0 THEN a.s
  ELSE [a.s EXCEPT !.uh[curhead].uh_entry = <<a.newlist[Len(a.newlist)]>>]

\* curhead->uh_entry = newlist; curhead->uh_flags = new_flags; s0 is the state
\* u_undoredo() was called in.
StoreNewList(a, s0) ==
  [a.s EXCEPT !.uh[s0.b_u_curhead].uh_entry = a.newlist,
              !.uh[s0.b_u_curhead].uh_getbot_entry =
                  IF @ > 0 THEN Len(s0.uh[s0.b_u_curhead].uh_entry) + 1 - @ ELSE @,
              !.uh[s0.b_u_curhead].uh_flags = NewFlags(s0)]

\* if ((old_flags & UH_EMPTYBUF) && buf_is_empty(curbuf)) ml_flags |= ML_EMPTY;
SetEmpty(s, old_flags) ==
  IF HasFlag(old_flags, UH_EMPTYBUF) /\ buf_is_empty(s)
    THEN [s EXCEPT !.ml_empty = TRUE] ELSE s


\* SetChanged that takes the buffer as changed after every undo and redo.
SetChanged_Always(s, old_flags) == changed(s)

\* if (old_flags & UH_CHANGED) changed(curbuf); else unchanged(curbuf, false, true);
SetChanged(s, old_flags) ==
  IF HasFlag(old_flags, UH_CHANGED) THEN changed(s) ELSE unchanged(s)

\* "Remember where we are for "g-" and ":earlier 10s"."
RememberSeq(s, curhead, undo) ==
  [s EXCEPT !.b_u_seq_cur =
                IF undo THEN (IF s.uh[curhead].uh_next # 0
                                THEN s.uh[s.uh[curhead].uh_next].uh_seq ELSE 0)
                ELSE s.uh[curhead].uh_seq,
            !.b_u_save_nr_cur =
                IF s.uh[curhead].uh_save_nr # 0
                  THEN (IF undo THEN s.uh[curhead].uh_save_nr - 1
                        ELSE s.uh[curhead].uh_save_nr)
                  ELSE @,
            !.b_u_time_cur = s.uh[curhead].uh_time]

\* u_undoredo() after the loop over the entries.
UndoRedoEnd(a, s0, undo) ==
  IF a.fail THEN UndoFailed(a, s0.b_u_curhead)
  ELSE RememberSeq(
         UndoCursor(SetChanged(SetEmpty(StoreNewList(a, s0),
                                        s0.uh[s0.b_u_curhead].uh_flags),
                               s0.uh[s0.b_u_curhead].uh_flags),
                    s0.b_u_curhead),
         s0.b_u_curhead, undo)

\* u_undoredo(): the lines in the buffer are replaced by the lines in the entry
\* list at b_u_curhead, which takes the replaced lines for the next undo/redo.
u_undoredo(s, undo) ==
  UndoRedoEnd(UndoEntries([s |-> s, newlnum |-> MAXLNUM, newlist |-> << >>,
                           fail |-> FALSE],
                          s.b_u_curhead, s.uh[s.b_u_curhead].uh_entry, 1),
              s, undo)

\* ------------------------------------------------- u_undo, u_redo, u_doit
RECURSIVE DoitLoop(_, _, _), DoitUndo(_, _, _)


\* u_doit() going to uh_next whatever 'undolevels' is.
UndoTarget_Advance(s) ==
  IF s.b_u_curhead = 0 THEN [s EXCEPT !.b_u_curhead = s.b_u_newhead]
  ELSE [s EXCEPT !.b_u_curhead = s.uh[s.b_u_curhead].uh_next]

\* UndoTarget that stays at the header undone last, whatever 'undolevels' is.
UndoTarget_Stay(s) ==
  IF s.b_u_curhead = 0 THEN [s EXCEPT !.b_u_curhead = s.b_u_newhead] ELSE s

\* The header that is undone next becomes b_u_curhead.
UndoTarget(s) ==
  IF s.b_u_curhead = 0 THEN [s EXCEPT !.b_u_curhead = s.b_u_newhead]
  ELSE IF get_undolevel(s) > 0
    THEN [s EXCEPT !.b_u_curhead = s.uh[s.b_u_curhead].uh_next]
  ELSE s

\* "Advance for next redo.  Reset newhead when at the end of the redoable
\* changes."
RedoAdvance(s) ==
  [s EXCEPT !.b_u_newhead = IF s.uh[s.b_u_curhead].uh_prev = 0 THEN s.b_u_curhead ELSE @,
            !.b_u_curhead = s.uh[s.b_u_curhead].uh_prev]

\* One undo of the loop of u_doit(), b_u_curhead was set.
DoitUndo(s, count, did) ==
  IF s.b_u_numhead = 0 \/ s.b_u_curhead = 0
    \* nothing to undo: "stick curbuf->b_u_curhead at end"
    THEN [s EXCEPT !.b_u_curhead = s.b_u_oldhead, !.cnt = did]
    ELSE DoitLoop(u_undoredo(s, TRUE), count - 1, did + 1)

\* The loop of u_doit(): "count" rounds are left, "did" rounds were done.
DoitLoop(s, count, did) ==
  IF count = 0 THEN [s EXCEPT !.cnt = did]
  ELSE IF s.undo_undoes THEN DoitUndo(UndoTarget(s), count, did)
  ELSE IF s.b_u_curhead = 0 \/ get_undolevel(s) <= 0 THEN [s EXCEPT !.cnt = did]
  ELSE DoitLoop(RedoAdvance(u_undoredo(s, FALSE)), count - 1, did + 1)

\* u_doit(): undo or redo, depending on undo_undoes, "startcount" times.
\* cnt is the number of headers that were applied.
u_doit(s, startcount) == DoitLoop(s, startcount, 0)

\* "If we get an undo command while executing a macro, we behave like the
\* original vi": an open header is closed and the count is 1.
u_undo(s, count) ==
  u_doit([(IF ~s.b_u_synced THEN u_sync(s) ELSE s)
            EXCEPT !.undo_undoes = IF s.cpo_u THEN ~@ ELSE TRUE],
         IF ~s.b_u_synced THEN 1 ELSE count)

\* u_redo() without "undo_undoes = false": the direction of the last command
\* is kept.
u_redo_KeepsDirection(s, count) == u_doit(s, count)

\* u_redo(): with 'u' in 'cpoptions' repeat the previous undo or redo.
u_redo(s, count) ==
  u_doit([s EXCEPT !.undo_undoes = IF s.cpo_u THEN @ ELSE FALSE], count)

\* ex_undojoin() without the test for b_u_curhead (E790).
ex_undojoin_AfterUndo(s) ==
  IF s.b_u_newhead = 0 THEN [s EXCEPT !.ret = "nothing"]
  ELSE IF ~s.b_u_synced THEN [s EXCEPT !.ret = "unsynced"]
  ELSE IF get_undolevel(s) < 0 THEN [s EXCEPT !.ret = "noundo"]
  ELSE [s EXCEPT !.b_u_synced = FALSE, !.ret = "OK"]

\* ex_undojoin(): continue adding to the last entry list.
ex_undojoin(s) ==
  IF s.b_u_newhead = 0 THEN [s EXCEPT !.ret = "nothing"]
  ELSE IF s.b_u_curhead # 0 THEN [s EXCEPT !.ret = "E790"]
  ELSE IF ~s.b_u_synced THEN [s EXCEPT !.ret = "unsynced"]
  ELSE IF get_undolevel(s) < 0 THEN [s EXCEPT !.ret = "noundo"]
  ELSE [s EXCEPT !.b_u_synced = FALSE, !.ret = "OK"]

\* -------------------------------------------------------------- undo_time
\* uh_walk of a header in the current walk: not visited in this walk, "mark"
\* (it could possibly be on the path) or "nomark" (been there without success).
W_NONE == 0
W_MARK == 1
W_NOMARK == 2

\* The test of round 1 that uhp is closer to the target than "closest".
IsCloser(s, c, p, uhseq, val) ==
  /\ IF c.step < 0 THEN uhseq <= s.b_u_seq_cur ELSE uhseq > s.b_u_seq_cur
  /\ IF c.dosec /\ val = p.closest
       THEN (IF c.step < 0 THEN uhseq < p.closest_seq ELSE uhseq > p.closest_seq)
       ELSE \/ p.closest = c.closest_start
            \/ IF val > p.target
                 THEN (IF p.closest > p.target
                         THEN val - p.target <= p.closest - p.target
                         ELSE val - p.target <= p.target - p.closest)
                 ELSE (IF p.closest > p.target
                         THEN p.target - val <= p.closest - p.target
                         ELSE p.target - val <= p.target - p.closest)

RECURSIVE WalkLoop(_, _, _)
\* while (uhp != NULL): find the path from the current state to the target.
\* c = [round, step, dosec, dofile, closest_start],
\* p = [uhp, walk, closest, closest_seq, target, found].
WalkLoop(s, c, p) ==
  IF p.uhp = 0 THEN p
  ELSE
    LET u == p.uhp
        h == s.uh[u]
        val == IF c.dosec THEN h.uh_time ELSE IF c.dofile THEN h.uh_save_nr ELSE h.uh_seq
        upd == c.round = 1 /\ ~(c.dofile /\ val = 0) /\ IsCloser(s, c, p, h.uh_seq, val)
        p1 == [p EXCEPT !.walk[u] = W_MARK,
                        !.closest = IF upd THEN val ELSE @,
                        !.closest_seq = IF upd THEN h.uh_seq ELSE @]
        fresh(x) == x # 0 /\ p1.walk[x] = W_NONE
    IN IF p1.target = val /\ ~c.dosec
         THEN [p1 EXCEPT !.target = h.uh_seq, !.found = TRUE]
       ELSE IF fresh(h.uh_prev)
         THEN WalkLoop(s, c, [p1 EXCEPT !.uhp = h.uh_prev])
       ELSE IF fresh(h.uh_alt_next)
         THEN WalkLoop(s, c, [p1 EXCEPT !.uhp = h.uh_alt_next])
       ELSE IF h.uh_alt_prev = 0 /\ fresh(h.uh_next)
         \* "If still at the start we don't go through this change."
         THEN WalkLoop(s, c, [p1 EXCEPT !.walk[u] = IF u = s.b_u_curhead THEN W_NOMARK ELSE @,
                                        !.uhp = h.uh_next])
       \* "need to backtrack; mark this node as useless"
       ELSE WalkLoop(s, c, [p1 EXCEPT !.walk[u] = W_NOMARK,
                                      !.uhp = IF h.uh_alt_prev # 0 THEN h.uh_alt_prev
                                              ELSE h.uh_next])

\* One round of the search, from the current position.
WalkRound(s, c, target, closest, closest_seq) ==
  WalkLoop(s, c, [uhp |-> IF s.b_u_curhead = 0 THEN s.b_u_newhead ELSE s.b_u_curhead,
                  walk |-> [x \in HdrIds |-> W_NONE],
                  closest |-> closest, closest_seq |-> closest_seq,
                  target |-> target, found |-> FALSE])

RECURSIVE UndoTimeUp(_, _, _, _)
\* "First go up the tree as much as needed."  a = [s, walk].
UndoTimeUp(a, target, above, n) ==
  LET s == a.s
      uhp == IF s.b_u_curhead = 0 THEN s.b_u_newhead ELSE s.uh[s.b_u_curhead].uh_next
  IN IF \/ uhp = 0
        \/ (target > 0 /\ a.walk[uhp] # W_MARK)
        \/ (s.uh[uhp].uh_seq = target /\ ~above)
       THEN a
       ELSE UndoTimeUp([s |-> u_undoredo([s EXCEPT !.b_u_curhead = uhp], TRUE),
                        walk |-> IF target > 0 THEN [a.walk EXCEPT ![uhp] = W_NOMARK]
                                 ELSE a.walk],
                       target, above, n + 1)

RECURSIVE FirstMarked(_, _, _), LastMarked(_, _, _), FirstAlt(_, _)
\* "Go back to the first branch with a mark."
FirstMarked(s, walk, uhp) ==
  LET ap == s.uh[uhp].uh_alt_prev
  IN IF ap # 0 /\ walk[ap] = W_MARK THEN FirstMarked(s, walk, ap) ELSE uhp
\* "Find the last branch with a mark, that's the one."
LastMarked(s, walk, last) ==
  LET an == s.uh[last].uh_alt_next
  IN IF an # 0 /\ walk[an] = W_MARK THEN LastMarked(s, walk, an) ELSE last
FirstAlt(s, uhp) ==
  IF s.uh[uhp].uh_alt_prev # 0 THEN FirstAlt(s, s.uh[uhp].uh_alt_prev) ELSE uhp


\* The used branch stays where it is in the list of alternatives.
MakeFirstAlt_Skip(s, uhp0, last) == s

\* "Make the used branch the first entry in the list of alternatives to make
\* "u" and CTRL-R take this branch."
MakeFirstAlt(s, uhp0, last) ==
  LET uhp == FirstAlt(s, uhp0)
      an == s.uh[last].uh_alt_next
      ap == s.uh[last].uh_alt_prev
      s1 == IF an # 0 THEN [s EXCEPT !.uh[an].uh_alt_prev = ap] ELSE s
      s2 == [s1 EXCEPT !.uh[ap].uh_alt_next = an]
      s3 == [s2 EXCEPT !.uh[last].uh_alt_prev = 0]
      s4 == [s3 EXCEPT !.uh[last].uh_alt_next = uhp]
      s5 == [s4 EXCEPT !.uh[uhp].uh_alt_prev = last]
      s6 == IF s5.b_u_oldhead = uhp THEN [s5 EXCEPT !.b_u_oldhead = last] ELSE s5
  IN IF s6.uh[last].uh_next # 0
       THEN [s6 EXCEPT !.uh[s6.uh[last].uh_next].uh_prev = last] ELSE s6

RECURSIVE UndoTimeDown(_, _, _, _), DownStep(_, _, _, _), DownNext(_, _, _, _, _)

\* The branch with a mark becomes the first alternative and b_u_curhead.
PickBranch(s, walk) ==
  LET uhp0 == FirstMarked(s, walk, s.b_u_curhead)
      last == LastMarked(s, walk, uhp0)
  IN [(IF last # uhp0 THEN MakeFirstAlt(s, uhp0, last) ELSE s)
        EXCEPT !.b_u_curhead = last]

\* "Advance "curhead" to below the header we last used.  If it becomes NULL
\* then we need to set "newhead" to this leaf."
DownAdvance(s) ==
  [s EXCEPT !.b_u_newhead = IF s.uh[s.b_u_curhead].uh_prev = 0 THEN s.b_u_curhead ELSE @,
            !.b_u_curhead = s.uh[s.b_u_curhead].uh_prev]

\* After header uhp was redone: the target is reached, or the path goes on.
DownNext(s, uhp, walk, target, above) ==
  IF s.uh[uhp].uh_seq = target THEN s
  ELSE IF s.b_u_curhead = 0 \/ walk[s.b_u_curhead] # W_MARK THEN [s EXCEPT !.err = TRUE]
  ELSE UndoTimeDown(s, walk, target, above)

\* One round of the redo loop, b_u_curhead is the header on the path.
DownStep(s, walk, target, above) ==
  IF walk[s.b_u_curhead] # W_MARK THEN s
  ELSE IF s.uh[s.b_u_curhead].uh_seq = target /\ above
    THEN [s EXCEPT !.b_u_seq_cur = target - 1]
  ELSE DownNext(DownAdvance(u_undoredo(s, FALSE)), s.b_u_curhead, walk, target, above)

\* "And now go down the tree (redo), branching off where needed."
UndoTimeDown(s, walk, target, above) ==
  IF s.b_u_curhead = 0 THEN s
  ELSE DownStep(PickBranch(s, walk), walk, target, above)

\* Following the path up the tree only, without the redo part.
UndoTimeGo_UpOnly(s, walk, target, above) ==
  UndoTimeUp([s |-> s, walk |-> walk], target, above, 0).s

\* The path goes up the tree, and down when the target is a change.
UndoTimePath(a, target, above) ==
  IF target > 0 THEN UndoTimeDown(a.s, a.walk, target, above) ELSE a.s

\* "If we found it: Follow the path to go to where we want to be."
UndoTimeGo(s, walk, target, above) ==
  UndoTimePath(UndoTimeUp([s |-> s, walk |-> walk], target, above, 0), target, above)

\* The end of round 2 of the search.
UndoTimeRound2(s, r2, step) ==
  IF r2.found THEN [UndoTimeGo(s, r2.walk, r2.target, step < 0) EXCEPT !.ret = "OK"]
  ELSE [s EXCEPT !.ret = "lost"]


\* UndoTimeRound1 that gives up when the target itself is not in the tree.
UndoTimeRound1_Strict(s, r1, c1, target, closest, step, absolute) ==
  IF target = 0 THEN [UndoTimeGo(s, [x \in HdrIds |-> W_NONE], 0, FALSE) EXCEPT !.ret = "OK"]
  ELSE IF r1.found THEN [UndoTimeGo(s, r1.walk, r1.target, FALSE) EXCEPT !.ret = "OK"]
  ELSE [s EXCEPT !.ret = "E830"]

\* The end of round 1 of the search.
UndoTimeRound1(s, r1, c1, target, closest, step, absolute) ==
  IF target = 0 THEN [UndoTimeGo(s, [x \in HdrIds |-> W_NONE], 0, FALSE) EXCEPT !.ret = "OK"]
  ELSE IF r1.found THEN [UndoTimeGo(s, r1.walk, r1.target, FALSE) EXCEPT !.ret = "OK"]
  ELSE IF absolute THEN [s EXCEPT !.ret = "E830"]
  ELSE IF r1.closest = closest THEN [s EXCEPT !.ret = "already"]
  ELSE UndoTimeRound2(s, WalkRound(s, [c1 EXCEPT !.round = 2, !.dosec = FALSE,
                                                 !.dofile = FALSE],
                                   r1.closest_seq, r1.closest, r1.closest_seq),
                      step)

\* undo_time() once the open header was closed.
UndoTimeSynced(s, step, sec, file, absolute) ==
  LET uhp0 == IF s.b_u_curhead # 0 THEN s.uh[s.b_u_curhead].uh_next ELSE s.b_u_newhead
      back == file /\ step < 0
      t0 == IF absolute THEN step
            ELSE IF sec THEN s.b_u_time_cur + step
            ELSE IF back
              THEN (IF uhp0 # 0 /\ s.uh[uhp0].uh_save_nr # 0
                      THEN s.b_u_save_nr_cur + step
                      ELSE s.b_u_save_nr_cur + step + 1)
            ELSE IF file
              THEN (IF s.b_u_save_nr_cur + step > s.b_u_save_nr_last
                      THEN s.b_u_seq_last + 1 ELSE s.b_u_save_nr_cur + step)
            ELSE s.b_u_seq_cur + step
      dofile == IF absolute \/ sec THEN file
                ELSE IF back THEN ~(t0 <= 0)
                ELSE file /\ ~(s.b_u_save_nr_cur + step > s.b_u_save_nr_last)
      closest == IF absolute \/ step < 0 THEN -1
                 ELSE IF sec THEN s.now + 1
                 ELSE IF dofile THEN s.b_u_save_nr_last + 2
                 ELSE s.b_u_seq_last + 2
      target == IF absolute THEN t0
                ELSE IF step < 0 THEN Max(t0, 0)
                ELSE IF t0 >= closest THEN closest - 1 ELSE t0
      c1 == [round |-> 1, step |-> step, dosec |-> sec, dofile |-> dofile,
             closest_start |-> closest]
  IN UndoTimeRound1(s, WalkRound(s, c1, target, closest, s.b_u_seq_cur),
                    c1, target, closest, step, absolute)

\* undo_time(): undo or redo over the timeline.  ret tells how it ended.
undo_time(s0, step, sec, file, absolute) ==
  UndoTimeSynced(IF ~s0.b_u_synced THEN u_sync(s0) ELSE s0, step, sec, file, absolute)

\* u_unch_branch(): UH_CHANGED is set in all headers from uhp on.
RECURSIVE u_unch_branch(_, _)
u_unch_branch(s, uhp) ==
  IF uhp = 0 THEN s
  ELSE LET s1 == [s EXCEPT !.uh[uhp].uh_flags =
                               IF HasFlag(@, UH_CHANGED) THEN @ ELSE @ + UH_CHANGED]
           s2 == IF s1.uh[uhp].uh_alt_next # 0
                   THEN u_unch_branch(s1, s1.uh[uhp].uh_alt_next) ELSE s1
       IN u_unch_branch(s2, s2.uh[uhp].uh_prev)

\* u_unchanged(): now an undo means that the buffer is modified.
u_unchanged(s) == u_unch_branch(s, s.b_u_oldhead)

\* u_update_save_nr(): increase the write count, store it in the last undo
\* header, what would be used for "u".
u_update_save_nr(s) ==
  LET n == s.b_u_save_nr_last + 1
      uhp == IF s.b_u_curhead # 0 THEN s.uh[s.b_u_curhead].uh_next ELSE s.b_u_newhead
      s1 == [s EXCEPT !.b_u_save_nr_last = n, !.b_u_save_nr_cur = n]
  IN IF uhp # 0 THEN [s1 EXCEPT !.uh[uhp].uh_save_nr = n] ELSE s1


\* ------------------------------------------------------------- ex_undolist
\* ex_undolist(): "walk the tree to find all leafs, put the info in ga".
\* w = [uhp, walk, changes, ga]; an item of ga is the line of one header: its
\* uh_seq and the number of changes.
ListLeaf(s, w) ==
  IF s.uh[w.uhp].uh_prev = 0 /\ w.walk[w.uhp] = W_NONE
    THEN [w EXCEPT !.ga = Append(@, [seq |-> s.uh[w.uhp].uh_seq, changes |-> w.changes]),
                   !.walk[w.uhp] = W_MARK]
    ELSE [w EXCEPT !.walk[w.uhp] = W_MARK]

\* ListNext that never goes to an alternate branch.
ListNext_NoAlt(s, w) ==
  IF s.uh[w.uhp].uh_prev # 0 /\ w.walk[s.uh[w.uhp].uh_prev] = W_NONE
    THEN [w EXCEPT !.uhp = s.uh[w.uhp].uh_prev, !.changes = @ + 1]
  ELSE IF s.uh[w.uhp].uh_next # 0 /\ s.uh[w.uhp].uh_alt_prev = 0
          /\ w.walk[s.uh[w.uhp].uh_next] = W_NONE
    THEN [w EXCEPT !.uhp = s.uh[w.uhp].uh_next, !.changes = @ - 1]
  ELSE IF s.uh[w.uhp].uh_alt_prev # 0
    THEN [w EXCEPT !.walk[w.uhp] = W_NOMARK, !.uhp = s.uh[w.uhp].uh_alt_prev]
  ELSE [w EXCEPT !.walk[w.uhp] = W_NOMARK, !.uhp = s.uh[w.uhp].uh_next,
                 !.changes = @ - 1]

\* ex_undolist(): where the walk goes from w.uhp, which has its mark.
ListNext(s, w) ==
  IF s.uh[w.uhp].uh_prev # 0 /\ w.walk[s.uh[w.uhp].uh_prev] = W_NONE
    \* "go down in the tree if we haven't been there"
    THEN [w EXCEPT !.uhp = s.uh[w.uhp].uh_prev, !.changes = @ + 1]
  ELSE IF s.uh[w.uhp].uh_alt_next # 0 /\ w.walk[s.uh[w.uhp].uh_alt_next] = W_NONE
    \* "go to alternate branch if we haven't been there"
    THEN [w EXCEPT !.uhp = s.uh[w.uhp].uh_alt_next]
  ELSE IF s.uh[w.uhp].uh_next # 0 /\ s.uh[w.uhp].uh_alt_prev = 0
          /\ w.walk[s.uh[w.uhp].uh_next] = W_NONE
    \* "go up in the tree if we haven't been there and we are at the start of
    \* alternate branches"
    THEN [w EXCEPT !.uhp = s.uh[w.uhp].uh_next, !.changes = @ - 1]
  \* "need to backtrack; mark this node as done"
  ELSE IF s.uh[w.uhp].uh_alt_prev # 0
    THEN [w EXCEPT !.walk[w.uhp] = W_NOMARK, !.uhp = s.uh[w.uhp].uh_alt_prev]
  ELSE [w EXCEPT !.walk[w.uhp] = W_NOMARK, !.uhp = s.uh[w.uhp].uh_next,
                 !.changes = @ - 1]

\* ex_undolist(): while (uhp != NULL)
RECURSIVE ListWalk(_, _)
ListWalk(s, w) == IF w.uhp = 0 THEN w ELSE ListWalk(s, ListNext(s, ListLeaf(s, w)))

\* sort_strings(): the lines start with "%6d" of uh_seq, so they are sorted by
\* uh_seq.  The item with the smallest uh_seq goes first.
RECURSIVE SortBySeq(_)
SortBySeq(ga) ==
  IF ga = << >> THEN << >>
  ELSE LET i == CHOOSE i \in 1 .. Len(ga) : \A j \in 1 .. Len(ga) :
                   ga[i].seq < ga[j].seq \/ (ga[i].seq = ga[j].seq /\ i <= j)
       IN <<ga[i]>> \o SortBySeq(RemoveAt(ga, i))

\* ex_undolist(): the lines that are displayed, without an interrupt.
ex_undolist(s) ==
  SortBySeq(ListWalk(s, [uhp |-> s.b_u_oldhead, walk |-> [h \in HdrIds |-> W_NONE],
                         changes |-> 1, ga |-> << >>]).ga)


\* ---------------------------------------------------- u_undo_and_forget
\* "set the redo header to the next alternative branch (if any)": to_forget
\* leaves the list of alternates and b_u_seq_cur follows the new b_u_curhead.
ForgetSetCurhead(s, to_forget) ==
  LET cur == s.uh[to_forget].uh_alt_next
      s1 == [s EXCEPT !.b_u_newhead = s.uh[to_forget].uh_next, !.b_u_curhead = cur]
  IN IF cur # 0
       THEN [s1 EXCEPT !.uh[to_forget].uh_alt_next = 0,
                       !.uh[cur].uh_alt_prev = s.uh[to_forget].uh_alt_prev,
                       !.b_u_seq_cur = IF s.uh[cur].uh_next # 0
                                         THEN s.uh[s.uh[cur].uh_next].uh_seq ELSE 0]
     ELSE IF s1.b_u_newhead # 0
       THEN [s1 EXCEPT !.b_u_seq_cur = s.uh[s1.b_u_newhead].uh_seq]
     ELSE s1

\* if (to_forget->uh_alt_prev.ptr)
\*   to_forget->uh_alt_prev.ptr->uh_alt_next.ptr = curbuf->b_u_curhead;
ForgetLinkAltPrev(s, to_forget) ==
  IF s.uh[to_forget].uh_alt_prev # 0
    THEN [s EXCEPT !.uh[s.uh[to_forget].uh_alt_prev].uh_alt_next = s.b_u_curhead]
    ELSE s

\* if (curbuf->b_u_newhead) curbuf->b_u_newhead->uh_prev.ptr = curbuf->b_u_curhead;
ForgetLinkNewhead(s) ==
  IF s.b_u_newhead # 0
    THEN [s EXCEPT !.uh[s.b_u_newhead].uh_prev = s.b_u_curhead]
    ELSE s


\* u_undo_and_forget() taking one from b_u_seq_last whatever header is forgotten.
ForgetSeqLast_Always(s, to_forget) == [s EXCEPT !.b_u_seq_last = @ - 1]

\* if (curbuf->b_u_seq_last == to_forget->uh_seq) curbuf->b_u_seq_last--;
ForgetSeqLast(s, to_forget) ==
  IF s.b_u_seq_last = s.uh[to_forget].uh_seq
    THEN [s EXCEPT !.b_u_seq_last = @ - 1]
    ELSE s

\* "Delete the current redo header": the header that was undone last.
ForgetCurhead(s, to_forget) ==
  [u_freebranch(
     ForgetSeqLast(
       ForgetLinkNewhead(
         ForgetLinkAltPrev(ForgetSetCurhead(s, to_forget), to_forget)),
       to_forget),
     to_forget) EXCEPT !.ret = "OK"]

\* "nothing was undone": u_undo_and_forget() returns false.
ForgetAfterUndo(s) ==
  IF s.b_u_curhead = 0 THEN [s EXCEPT !.ret = "FAIL"]
  ELSE ForgetCurhead(s, s.b_u_curhead)

\* u_undo_and_forget(): undo and remove the branch from the undo tree.
u_undo_and_forget(s, count) ==
  ForgetAfterUndo(
    u_doit([(IF ~s.b_u_synced THEN u_sync(s) ELSE s) EXCEPT !.undo_undoes = TRUE],
           IF ~s.b_u_synced THEN 1 ELSE count))


\* ---------------------------------------------------------- u_write_undo
\* The walk through the tree that never turns to an alternate branch.
WalkNext_NoAltNext(s, uhp, seen) ==
  IF s.uh[uhp].uh_prev # 0 /\ s.uh[uhp].uh_prev \notin seen THEN s.uh[uhp].uh_prev
  ELSE IF s.uh[uhp].uh_next # 0 /\ s.uh[uhp].uh_alt_prev = 0
          /\ s.uh[uhp].uh_next \notin seen
    THEN s.uh[uhp].uh_next
  ELSE IF s.uh[uhp].uh_alt_prev # 0 THEN s.uh[uhp].uh_alt_prev
  ELSE s.uh[uhp].uh_next

\* "Now walk through the tree - algorithm from undo_time()."  seen holds the
\* headers with uh_walk == mark.
WalkNext(s, uhp, seen) ==
  IF s.uh[uhp].uh_prev # 0 /\ s.uh[uhp].uh_prev \notin seen THEN s.uh[uhp].uh_prev
  ELSE IF s.uh[uhp].uh_alt_next # 0 /\ s.uh[uhp].uh_alt_next \notin seen
    THEN s.uh[uhp].uh_alt_next
  ELSE IF s.uh[uhp].uh_next # 0 /\ s.uh[uhp].uh_alt_prev = 0
          /\ s.uh[uhp].uh_next \notin seen
    THEN s.uh[uhp].uh_next
  ELSE IF s.uh[uhp].uh_alt_prev # 0 THEN s.uh[uhp].uh_alt_prev
  ELSE s.uh[uhp].uh_next

\* The rounds of the loop that are followed: more than a walk needs that
\* goes to every header and back from it.
WalkRounds == 4 * MaxHdr + 4

RECURSIVE WriteWalk(_, _, _, _, _)
\* "Iteratively serialize UHPs and their UEPs from the top down": the headers
\* that serialize_uhp is called for, in that order, and whether the loop has
\* ended within the rounds that are followed.
WriteWalk(s, uhp, seen, out, rounds) ==
  IF uhp = 0 THEN [hdrs |-> out, ended |-> TRUE]
  ELSE IF rounds = 0 THEN [hdrs |-> out, ended |-> FALSE]
  ELSE WriteWalk(s, WalkNext(s, uhp, seen \cup {uhp}), seen \cup {uhp},
                 IF uhp \in seen THEN out ELSE Append(out, uhp), rounds - 1)

\* u_write_undo(): "Undo must be synced", then the walk from b_u_oldhead.
WrittenHeaders(s) ==
  LET t == u_sync(s) IN WriteWalk(t, t.b_u_oldhead, {}, << >>, WalkRounds)


\* ------------------------------------------------------ extmark undo objects
\* The types of extmark undo objects (UndoObjectType).
kExtmarkSplice == 0
kExtmarkMove == 1
kExtmarkSavePos == 3

\* The extmark undo objects a header takes.
MaxMarks == 2

\* The objects that are recorded: a splice, a move and a saved position.
ExtmarkObjects == [type : {kExtmarkSplice, kExtmarkMove, kExtmarkSavePos}, data : {0}]

\* u_force_get_undo_header(): "Return the undo header.  If none is set, set one
\* first."  uhpp is the header, NULL when undo is disabled.
u_force_get_undo_header(s) ==
  IF s.b_u_curhead # 0 THEN [s EXCEPT !.uhpp = s.b_u_curhead]
  ELSE IF s.b_u_newhead # 0 THEN [s EXCEPT !.uhpp = s.b_u_newhead]
  ELSE LET t == u_savecommon(s, 0, 1, 1, TRUE, -1)
       IN [t EXCEPT !.uhpp = IF t.b_u_curhead # 0 THEN t.b_u_curhead ELSE t.b_u_newhead]

\* u_extmark_splice() and the like: the object goes to the end of uh_extmark
\* of that header.
u_extmark(s, extup) ==
  LET t == u_force_get_undo_header(s)
  IN IF t.uhpp = 0 THEN t
     ELSE [t EXCEPT !.uh[t.uhpp].uh_extmark = Append(@, extup), !.uhpp = 0]

\* ------------------------------------------------------------ the undo file
\* The file is the record of the items that are written, in the names of the
\* variables they are read into; a number is the sequence of its bytes.
UF_START_MAGIC == "Vim\\237UnDo\\345"
UF_HEADER_END_MAGIC == 59306
UF_ENTRY_END_MAGIC == 13697
UF_VERSION == 3

RECURSIVE BytesOf(_, _)
\* The "len" low bytes of n >= 0, the most significant byte first.
BytesOf(n, len) ==
  IF len = 0 THEN << >> ELSE Append(BytesOf(n \div 256, len - 1), n % 256)

RECURSIVE Unsigned(_)
\* n = (n << 8) + getc(fd), byte by byte.
Unsigned(b) ==
  IF b = << >> THEN 0 ELSE 256 * Unsigned(SubSeq(b, 1, Len(b) - 1)) + b[Len(b)]

\* The bytes with every bit flipped.
Flipped(b) == [i \in 1 .. Len(b) |-> 255 - b[i]]

\* undo_write_bytes(): "nr" converted to uintmax_t, its "len" low bytes written
\* with the most significant byte first.
undo_write_bytes(nr, len) ==
  IF nr >= 0 THEN BytesOf(nr, len) ELSE Flipped(BytesOf(0 - nr - 1, len))

\* undo_read_4c(): four bytes as an int.
undo_read_4c(b) ==
  IF b[1] >= 128 THEN 0 - Unsigned(Flipped(b)) - 1 ELSE Unsigned(b)

\* undo_read_2c(): two bytes, not negative.
undo_read_2c(b) == Unsigned(b)

\* undo_read_time(): eight bytes as a time_t.
undo_read_time(b) ==
  IF b[1] >= 128 THEN 0 - Unsigned(Flipped(b)) - 1 ELSE Unsigned(b)

\* A string with its length before it, written when the length is not 0.
WriteString(t) == [len |-> undo_write_bytes(Len(t), 4), str |-> t]

\* put_header_ptr() that writes 0 for every header.
put_header_ptr_Null(s, uhp) == undo_write_bytes(0, 4)

\* put_header_ptr(): "Instead of writing the pointer itself, we use the
\* sequence number of the header."
put_header_ptr(s, uhp) ==
  undo_write_bytes(IF uhp = 0 THEN 0 ELSE s.uh[uhp].uh_seq, 4)

\* serialize_pos(), without coladd.
serialize_pos(pos) ==
  [lnum |-> undo_write_bytes(pos.lnum, 4), col |-> undo_write_bytes(pos.col, 4)]

\* serialize_uep()
serialize_uep(uep) ==
  [ue_top |-> undo_write_bytes(uep.ue_top, 4),
   ue_bot |-> undo_write_bytes(uep.ue_bot, 4),
   ue_lcount |-> undo_write_bytes(uep.ue_lcount, 4),
   ue_size |-> undo_write_bytes(uep.ue_size, 4),
   ue_array |-> [i \in 1 .. uep.ue_size |-> WriteString(uep.ue_array[i])]]

\* serialize_extmark() that writes splices only.
serialize_extmark_SpliceOnly(extup) ==
  IF extup.type = kExtmarkSplice
    THEN <<[type |-> undo_write_bytes(extup.type, 4), data |-> extup.data]>>
    ELSE << >>

\* serialize_extmark(): what is written for one extmark undo object.  "We do
\* not serialize ExtmarkSavePos information".
serialize_extmark(extup) ==
  IF extup.type \in {kExtmarkSplice, kExtmarkMove}
    THEN <<[type |-> undo_write_bytes(extup.type, 4), data |-> extup.data]>>
    ELSE << >>

RECURSIVE WriteExtmarks(_)
\* "Write all extmark undo objects"
WriteExtmarks(q) ==
  IF q = << >> THEN << >> ELSE serialize_extmark(Head(q)) \o WriteExtmarks(Tail(q))

\* serialize_uhp(), without the marks and the Visual area.  Every entry and
\* every extmark undo object has UF_ENTRY_MAGIC before it and the list ends
\* with entry_end or extmark_end.
serialize_uhp(s, uhp) ==
  LET h == s.uh[uhp]
  IN [uh_next |-> put_header_ptr(s, h.uh_next),
      uh_prev |-> put_header_ptr(s, h.uh_prev),
      uh_alt_next |-> put_header_ptr(s, h.uh_alt_next),
      uh_alt_prev |-> put_header_ptr(s, h.uh_alt_prev),
      uh_seq |-> undo_write_bytes(h.uh_seq, 4),
      uh_cursor |-> serialize_pos(h.uh_cursor),
      uh_cursor_vcol |-> undo_write_bytes(h.uh_cursor_vcol, 4),
      uh_flags |-> undo_write_bytes(h.uh_flags, 2),
      uh_time |-> undo_write_bytes(h.uh_time, 8),
      uh_save_nr |-> undo_write_bytes(h.uh_save_nr, 4),
      uh_entry |-> [i \in 1 .. Len(h.uh_entry) |-> serialize_uep(h.uh_entry[i])],
      entry_end |-> undo_write_bytes(UF_ENTRY_END_MAGIC, 2),
      uh_extmark |-> WriteExtmarks(h.uh_extmark),
      extmark_end |-> undo_write_bytes(UF_ENTRY_END_MAGIC, 2)]

\* u_compute_hash(): the hash of the text of the buffer, taken as the text.
u_compute_hash(s) == s.lines

\* serialize_header()
serialize_header(s, hash) ==
  [magic |-> UF_START_MAGIC,
   version |-> undo_write_bytes(UF_VERSION, 2),
   hash |-> hash,
   line_count |-> undo_write_bytes(ml_line_count(s), 4),
   line_ptr |-> WriteString(IF s.b_u_line_ptr = NoLine THEN << >> ELSE s.b_u_line_ptr),
   line_lnum |-> undo_write_bytes(s.b_u_line_lnum, 4),
   line_colnr |-> undo_write_bytes(s.b_u_line_colnr, 4),
   old_header_seq |-> put_header_ptr(s, s.b_u_oldhead),
   new_header_seq |-> put_header_ptr(s, s.b_u_newhead),
   cur_header_seq |-> put_header_ptr(s, s.b_u_curhead),
   num_head |-> undo_write_bytes(s.b_u_numhead, 4),
   seq_last |-> undo_write_bytes(s.b_u_seq_last, 4),
   seq_cur |-> undo_write_bytes(s.b_u_seq_cur, 4),
   seq_time |-> undo_write_bytes(s.b_u_time_cur, 8),
   last_save_nr |-> undo_write_bytes(s.b_u_save_nr_last, 4)]

\* What is in a file when the first write to it failed.
NoFileHead == [magic |-> ""]

\* The writes of u_write_undo() in their order: serialize_header(), a
\* serialize_uhp() for every header of the walk, the end marker, and the
\* fsync().  "fault" is the one that fails, 0 when none does.
WriteFaults(s) == 0 .. Len(WrittenHeaders(s).hdrs) + 3

\* u_write_undo() from the test for undo information on, with a file name
\* that does not exist and can be made: "exists" tells that the file is there
\* when the function returns, "file" what is in it.
u_write_undo(s, hash, fault) ==
  IF s.b_u_numhead = 0 /\ s.b_u_line_ptr = NoLine
    THEN [exists |-> FALSE, write_ok |-> FALSE, file |-> [head |-> NoFileHead]]
  ELSE
    LET t == u_sync(s)
        walk == WrittenHeaders(s).hdrs
        n == IF fault = 0 \/ fault > Len(walk) + 1 THEN Len(walk) ELSE fault - 2
    IN [exists |-> TRUE,
        write_ok |-> fault = 0,
        file |-> [head |-> IF fault = 1 THEN NoFileHead ELSE serialize_header(t, hash),
                  tab |-> IF fault = 1 THEN << >>
                          ELSE [i \in 1 .. n |-> serialize_uhp(t, walk[i])],
                  end |-> IF fault = 0 \/ fault = Len(walk) + 3
                            THEN undo_write_bytes(UF_HEADER_END_MAGIC, 2)
                            ELSE << >>]]

\* ----------------------------------------------------------- u_read_undo
\* The headers in the files that are made up to be read.
MaxFileHdrs == 2

\* The sequence numbers in those files.
FileSeqs == {undo_write_bytes(n, 4) : n \in 0 .. MaxFileHdrs}

\* A header without entries and extmark undo objects, as serialize_uhp()
\* writes it, with any sequence numbers for its links.
FileHeaders ==
  [uh_next : FileSeqs,
   uh_prev : {undo_write_bytes(0, 4), undo_write_bytes(1, 4)},
   uh_alt_next : {undo_write_bytes(0, 4), undo_write_bytes(MaxFileHdrs, 4)},
   uh_alt_prev : {undo_write_bytes(0, 4)},
   uh_seq : FileSeqs \ {undo_write_bytes(0, 4)},
   uh_cursor : {serialize_pos([lnum |-> 1, col |-> 0])},
   uh_cursor_vcol : {undo_write_bytes(-1, 4)},
   uh_flags : {undo_write_bytes(0, 2)},
   uh_time : {undo_write_bytes(1, 8)},
   uh_save_nr : {undo_write_bytes(0, 4)},
   uh_entry : {<< >>},
   entry_end : {undo_write_bytes(UF_ENTRY_END_MAGIC, 2)},
   uh_extmark : {<< >>},
   extmark_end : {undo_write_bytes(UF_ENTRY_END_MAGIC, 2)}]

\* The start of a file for the text "hash", with any numbers for the heads.
FileHeads(s, hash) ==
  [magic : {UF_START_MAGIC},
   version : {undo_write_bytes(UF_VERSION, 2)},
   hash : {hash},
   line_count : {undo_write_bytes(ml_line_count(s), 4)},
   line_ptr : {WriteString(<< >>)},
   line_lnum : {undo_write_bytes(0, 4)},
   line_colnr : {undo_write_bytes(0, 4)},
   old_header_seq : FileSeqs,
   new_header_seq : {undo_write_bytes(0, 4), undo_write_bytes(MaxFileHdrs, 4)},
   cur_header_seq : {undo_write_bytes(0, 4), undo_write_bytes(1, 4)},
   num_head : {undo_write_bytes(MaxFileHdrs - 1, 4), undo_write_bytes(MaxFileHdrs, 4)},
   seq_last : {undo_write_bytes(MaxFileHdrs, 4)},
   seq_cur : {undo_write_bytes(MaxFileHdrs, 4)},
   seq_time : {undo_write_bytes(1, 8)},
   last_save_nr : {undo_write_bytes(0, 4)}]

\* The files that are made up: complete, with up to MaxFileHdrs headers.
UndoFiles(s, hash) ==
  [head : FileHeads(s, hash),
   tab : UNION {[1 .. n -> FileHeaders] : n \in 0 .. MaxFileHdrs},
   end : {undo_write_bytes(UF_HEADER_END_MAGIC, 2)}]

\* A string with its length before it is not taken: "line length", or
\* undo_read_string() finds the file to end before the string does.
StringCorrupt(w) == undo_read_4c(w.len) < 0 \/ Len(w.str) < undo_read_4c(w.len)

\* undo_read_string() of a string that is taken.
ReadString(w) == SubSeq(w.str, 1, undo_read_4c(w.len))

\* unserialize_pos()
unserialize_pos(pos) ==
  [lnum |-> Max(undo_read_4c(pos.lnum), 0), col |-> Max(undo_read_4c(pos.col), 0)]

\* unserialize_uep() sets *error: a line of the entry is not taken.
UepCorrupt(w) ==
  \/ undo_read_4c(w.ue_size) > Len(w.ue_array)
  \/ \E i \in 1 .. undo_read_4c(w.ue_size) : StringCorrupt(w.ue_array[i])

\* unserialize_uep() of an entry that is taken.
unserialize_uep(w) ==
  [ue_top |-> undo_read_4c(w.ue_top),
   ue_size |-> undo_read_4c(w.ue_size),
   ue_bot |-> undo_read_4c(w.ue_bot),
   ue_lcount |-> undo_read_4c(w.ue_lcount),
   ue_array |-> [i \in 1 .. undo_read_4c(w.ue_size) |-> ReadString(w.ue_array[i])]]

\* unserialize_extmark() sets *error: the type is not one that is written.
ExtmarkCorrupt(w) == undo_read_4c(w.type) \notin {kExtmarkSplice, kExtmarkMove}

\* unserialize_extmark() of an object that is taken.
unserialize_extmark(w) == [type |-> undo_read_4c(w.type), data |-> w.data]

\* unserialize_uhp() returns NULL.
UhpCorrupt(w) ==
  \/ undo_read_4c(w.uh_seq) <= 0
  \/ \E i \in 1 .. Len(w.uh_entry) : UepCorrupt(w.uh_entry[i])
  \/ undo_read_2c(w.entry_end) # UF_ENTRY_END_MAGIC
  \/ \E i \in 1 .. Len(w.uh_extmark) : ExtmarkCorrupt(w.uh_extmark[i])
  \/ undo_read_2c(w.extmark_end) # UF_ENTRY_END_MAGIC

\* unserialize_uhp() of a header that is taken: the sequence numbers of the
\* file are in its links (uh_next.seq and the others), uh_getbot_entry is NULL.
unserialize_uhp(w) ==
       [live |-> TRUE,
        uh_next |-> undo_read_4c(w.uh_next),
        uh_prev |-> undo_read_4c(w.uh_prev),
        uh_alt_next |-> undo_read_4c(w.uh_alt_next),
        uh_alt_prev |-> undo_read_4c(w.uh_alt_prev),
        uh_seq |-> undo_read_4c(w.uh_seq),
        uh_time |-> undo_read_time(w.uh_time),
        uh_save_nr |-> undo_read_4c(w.uh_save_nr),
        uh_flags |-> undo_read_2c(w.uh_flags),
        uh_cursor |-> unserialize_pos(w.uh_cursor),
        uh_cursor_vcol |-> undo_read_4c(w.uh_cursor_vcol),
        uh_entry |-> [i \in 1 .. Len(w.uh_entry) |-> unserialize_uep(w.uh_entry[i])],
        uh_getbot_entry |-> 0,
        uh_extmark |-> [i \in 1 .. Len(w.uh_extmark) |-> unserialize_extmark(w.uh_extmark[i])]]

\* u_blockfree(): free all the headers of the buffer and the "U" line.
u_blockfree(s) ==
  [FreeAllFromOldhead([s EXCEPT !.uhpp = 0]) EXCEPT !.b_u_line_ptr = NoLine]

\* u_clearallandblockfree(): free the undo information and start without any.
u_clearallandblockfree(s) ==
  [u_blockfree(s) EXCEPT !.b_u_newhead = 0, !.b_u_oldhead = 0, !.b_u_curhead = 0,
                         !.b_u_synced = TRUE, !.b_u_numhead = 0,
                         !.b_u_line_ptr = NoLine, !.b_u_line_lnum = 0]

\* corruption_error("duplicate uh_seq")
DuplicateSeq(tab) ==
  \E i, j \in 1 .. Len(tab) : i # j /\ tab[i].uh_seq = tab[j].uh_seq

\* uh_next and the other links are unions of a pointer and a sequence number:
\* a number that is not replaced by a pointer is read as a pointer later, an
\* address that is no header.
WildPtr(seq) == IF seq > 0 THEN 0 - seq ELSE seq

RECURSIVE SeqIndex(_, _, _)
\* "swizzle each sequence number we have stored in uh_*_seq into a pointer
\* corresponding to the header with that sequence number": the first header
\* of the table with the number, from position j on; 0 is NULL.
SeqIndex(tab, seq, j) ==
  IF j > Len(tab) THEN (IF seq = 0 THEN 0 ELSE WildPtr(seq))
  ELSE IF tab[j].uh_seq = seq THEN j
  ELSE SeqIndex(tab, seq, j + 1)

RECURSIVE HeadIndex(_, _, _)
\* old_idx, new_idx and cur_idx: the first header with that number, from
\* position i on, 0 when the number is not positive or no header has it.
HeadIndex(tab, seq, i) ==
  IF seq <= 0 \/ i > Len(tab) THEN 0
  ELSE IF tab[i].uh_seq = seq THEN i
  ELSE HeadIndex(tab, seq, i + 1)

\* The header of uhp_table with its four links swizzled.
Swizzle(tab, uhp) ==
  [uhp EXCEPT !.uh_next = SeqIndex(tab, uhp.uh_next, 1),
              !.uh_prev = SeqIndex(tab, uhp.uh_prev, 1),
              !.uh_alt_next = SeqIndex(tab, uhp.uh_alt_next, 1),
              !.uh_alt_prev = SeqIndex(tab, uhp.uh_alt_prev, 1)]

\* "Now that we have read the undo info successfully, free the current undo
\* info and use the info from the file."  The headers of uhp_table get the
\* ids 1 .. num_head.
ReadInstall(s, head, tab) ==
  [u_blockfree(s) EXCEPT
     !.uh = [h \in HdrIds |-> IF h <= Len(tab) THEN Swizzle(tab, tab[h]) ELSE NoHdr],
     !.nalloc = Len(tab),
     !.b_u_oldhead = HeadIndex(tab, undo_read_4c(head.old_header_seq), 1),
     !.b_u_newhead = HeadIndex(tab, undo_read_4c(head.new_header_seq), 1),
     !.b_u_curhead = HeadIndex(tab, undo_read_4c(head.cur_header_seq), 1),
     !.b_u_line_ptr = IF undo_read_4c(head.line_ptr.len) > 0
                        THEN ReadString(head.line_ptr) ELSE NoLine,
     !.b_u_line_lnum = undo_read_4c(head.line_lnum),
     !.b_u_line_colnr = undo_read_4c(head.line_colnr),
     !.b_u_numhead = undo_read_4c(head.num_head),
     !.b_u_seq_last = undo_read_4c(head.seq_last),
     !.b_u_seq_cur = undo_read_4c(head.seq_cur),
     !.b_u_time_cur = undo_read_time(head.seq_time),
     !.b_u_save_nr_last = undo_read_4c(head.last_save_nr),
     !.b_u_save_nr_cur = undo_read_4c(head.last_save_nr),
     !.b_u_synced = TRUE,
     !.ret = "OK"]

\* u_read_undo() that frees the undo information of the buffer before it has
\* looked at the headers.
ReadTable_FreeFirst(s, f) ==
  LET tab == [i \in 1 .. Len(f.tab) |-> unserialize_uhp(f.tab[i])]
  IN IF \/ \E i \in 1 .. Len(f.tab) : UhpCorrupt(f.tab[i])
        \/ Len(f.tab) # undo_read_4c(f.head.num_head)
        \/ undo_read_2c(f.end) # UF_HEADER_END_MAGIC
        \/ DuplicateSeq(tab)
       THEN [u_blockfree(s) EXCEPT !.ret = "FAIL"]
     ELSE ReadInstall(s, f.head, tab)

\* The headers of the file go to uhp_table, and the table is installed, when
\* there are num_head of them, all taken by unserialize_uhp(), the end marker
\* follows and no sequence number is there twice.
ReadTable(s, f) ==
  LET tab == [i \in 1 .. Len(f.tab) |-> unserialize_uhp(f.tab[i])]
  IN IF \/ \E i \in 1 .. Len(f.tab) : UhpCorrupt(f.tab[i])
        \/ Len(f.tab) # undo_read_4c(f.head.num_head)
        \/ undo_read_2c(f.end) # UF_HEADER_END_MAGIC
        \/ DuplicateSeq(tab)
       THEN [s EXCEPT !.ret = "FAIL"]
     ELSE ReadInstall(s, f.head, tab)

\* u_read_undo() of a file that can be opened, "hash" the hash of the text of
\* the buffer: the checks in their order; the buffer keeps its undo
\* information when one of them fails.
u_read_undo(s, f, hash) ==
  IF f.head.magic # UF_START_MAGIC THEN [s EXCEPT !.ret = "FAIL"]
  ELSE IF undo_read_2c(f.head.version) # UF_VERSION THEN [s EXCEPT !.ret = "FAIL"]
  ELSE IF f.head.hash # hash \/ undo_read_4c(f.head.line_count) # ml_line_count(s)
    THEN [s EXCEPT !.ret = "FAIL"]
  ELSE IF \/ undo_read_4c(f.head.line_ptr.len) < 0
          \/ StringCorrupt(f.head.line_ptr)
          \/ undo_read_4c(f.head.line_lnum) < 0
          \/ undo_read_4c(f.head.line_colnr) < 0
    THEN [s EXCEPT !.ret = "FAIL"]
  ELSE ReadTable(s, f)

\* ------------------------------------------------------------ the editor
\* The buffer contents the editor starts with: an empty buffer, or MaxLines
\* lines.
InitLines == {[i \in 1 .. MaxLines |-> IF i % 2 = 1 THEN <<97>> ELSE <<98>>]}
\* The values of 'undolevels': no undo, Vi-compatible one level, one level
\* kept, and as many as there will be headers.
UndoLevels == {-1, 0, 1, MaxHdr}
\* The steps of :earlier and :later.
RelSteps == (0 - MaxHdr .. MaxHdr) \ {0}
\* Seconds that pass before a change.
TimeSteps == {1}

\* The changes the editor makes: line lnum gets another text or is deleted, or
\* a line is added below line lnum.
Edits(s) ==
  UNION {{[kind |-> "rep", lnum |-> l, text |-> t] : t \in Texts \ {s.lines[l]}} :
            l \in 1 .. ml_line_count(s)}
  \cup {[kind |-> "del", lnum |-> l, text |-> EmptyText] :
       l \in (IF s.ml_empty THEN {} ELSE 1 .. ml_line_count(s))}
  \cup {[kind |-> "app", lnum |-> l, text |-> <<98>>] :
       l \in (IF ml_line_count(s) < MaxLines THEN 0 .. ml_line_count(s) ELSE {})}

\* The ranges u_save() is called with before the change e: the lines next to
\* the change (u_savesub, u_savedel, open_line), or the whole buffer.
SaveRanges(s, e) ==
  {[top |-> IF e.kind = "app" THEN e.lnum ELSE e.lnum - 1, bot |-> e.lnum + 1]}
  \cup (IF e.kind = "rep" THEN {[top |-> 0, bot |-> ml_line_count(s) + 1]} ELSE {})

ApplyEdit(s, e) ==
  LET s1 == IF e.kind = "rep" THEN ml_replace(s, e.lnum, e.text)
            ELSE IF e.kind = "del" THEN ml_delete(s, e.lnum)
            ELSE ml_append(s, e.lnum, e.text)
      l == IF e.kind = "app" THEN e.lnum + 1 ELSE e.lnum
  IN check_cursor(changed([s1 EXCEPT !.w_cursor = [lnum |-> l, col |-> 0]]))


\* The buffer was not written yet.
NotWritten == [seq |-> -1, text |-> << >>, n |-> 0]

\* Where the buffer is in the undo tree: the sequence number of the change it
\* is at, which is the header that "u" would undo; when there is none, the
\* change the undone header was made at.
PosOf(s) ==
  LET h == IF s.b_u_curhead = 0 THEN s.b_u_newhead ELSE s.uh[s.b_u_curhead].uh_next
  IN IF h # 0 THEN s.uh[h].uh_seq
     ELSE IF s.b_u_curhead # 0 THEN base[s.b_u_curhead]
     ELSE s.b_u_seq_cur

Init ==
  /\ \/ lines \in InitLines /\ ml_empty = FALSE
     \/ lines = <<EmptyText>> /\ ml_empty = TRUE
  /\ b_changed = FALSE
  /\ w_cursor = [lnum |-> 1, col |-> 0]
  /\ uh = [h \in HdrIds |-> NoHdr]
  /\ nalloc = 0
  /\ b_u_oldhead = 0 /\ b_u_newhead = 0 /\ b_u_curhead = 0
  /\ b_u_synced = TRUE
  /\ b_u_numhead = 0
  /\ b_u_seq_last = 0 /\ b_u_seq_cur = 0
  /\ b_u_save_nr_last = 0 /\ b_u_save_nr_cur = 0
  /\ b_u_time_cur = 0
  /\ b_u_line_ptr = NoLine /\ b_u_line_lnum = 0 /\ b_u_line_colnr = 0
  /\ undo_undoes = FALSE
  /\ p_ul \in UndoLevels
  /\ cpo_u \in BOOLEAN
  /\ now = 1
  /\ nsaves = 0
  /\ joinst = 0
  /\ orig = lines
  /\ before = [h \in HdrIds |-> << >>]
  /\ after = [h \in HdrIds |-> << >>]
  /\ base = [h \in HdrIds |-> 0]
  /\ written = NotWritten

\* The save went through (s1) and the change was made (s2).
SaveEditCommit(s1, s2) ==
  /\ s1.ret = "OK"
  /\ Commit(s2)
  /\ now' = s1.now
  /\ before' = IF s1.nalloc # nalloc THEN [before EXCEPT ![s1.nalloc] = lines] ELSE before
  /\ base' = IF s1.nalloc # nalloc THEN [base EXCEPT ![s1.nalloc] = PosOf(St)] ELSE base
  /\ after' = IF s2.b_u_newhead # 0
                THEN [after EXCEPT ![s2.b_u_newhead] = s2.lines]
                ELSE after

SaveEditSaved(s1, e) == SaveEditCommit(s1, ApplyEdit(s1, e))

\* u_save(top, bot) followed by the change it announced.
SaveEdit ==
  /\ nsaves < MaxSaves
  /\ \E dt \in TimeSteps, e \in Edits(St) :
     \E r \in SaveRanges(St, e) :
       SaveEditSaved(
         u_save_buf([St EXCEPT !.now = IF b_u_synced THEN @ + dt ELSE @],
                    r.top, r.bot, -1), e)
  /\ nsaves' = nsaves + 1
  /\ joinst' = IF joinst >= 1 THEN 2 ELSE 0
  /\ UNCHANGED <<p_ul, cpo_u, orig, written>>

\* u_save(0, 2) followed by a new text for line 1: the changes that build the
\* undo tree, with room for one more header than SaveEdit has.
TreeChange ==
  /\ nsaves < MaxHdr
  /\ \E dt \in TimeSteps, t \in Texts \ {lines[1]} :
       SaveEditSaved(
         u_save_buf([St EXCEPT !.now = IF b_u_synced THEN @ + dt ELSE @], 0, 2, -1),
         [kind |-> "rep", lnum |-> 1, text |-> t])
  /\ nsaves' = nsaves + 1
  /\ joinst' = IF joinst >= 1 THEN 2 ELSE 0
  /\ UNCHANGED <<p_ul, cpo_u, orig, written>>

\* u_sync() at the end of a command.
Sync ==
  /\ ~b_u_synced
  /\ Commit(u_sync(St))
  /\ joinst' = 0 /\ UNCHANGED <<envvars, nsaves, orig, before, after, base, written>>

\* "u" with a count.
Undo ==
  \E count \in 1 .. 2 :
    LET s == u_undo(St, count)
    IN /\ Commit(s)
       /\ joinst' = 0 /\ UNCHANGED <<envvars, nsaves, orig, before, after, base, written>>

\* CTRL-R with a count.
Redo ==
  \E count \in 1 .. 2 :
    LET s == u_redo(St, count)
    IN /\ Commit(s)
       /\ joinst' = 0 /\ UNCHANGED <<envvars, nsaves, orig, before, after, base, written>>

\* :undojoin
UndoJoin ==
  LET s == ex_undojoin(St)
  IN /\ Commit(s)
     /\ joinst' = (IF s.ret = "OK" THEN 1 ELSE joinst)
     /\ UNCHANGED <<envvars, nsaves, orig, before, after, base, written>>

\* :undo N
UndoTime ==
  \E n \in 0 .. MaxHdr + 1 :
    /\ Commit(undo_time(St, n, FALSE, FALSE, TRUE))
    /\ joinst' = 0 /\ UNCHANGED <<envvars, nsaves, orig, before, after, base, written>>


\* :write of the whole buffer, after the command before it has ended: the
\* buffer is not modified any more, u_unchanged() and u_update_save_nr().
Write ==
  /\ b_u_synced
  /\ b_u_save_nr_last < MaxWrites
  /\ Commit(u_update_save_nr(u_unchanged(unchanged(St))))
  /\ written' = [seq |-> PosOf(St), text |-> lines, n |-> nsaves]
  /\ UNCHANGED <<envvars, nsaves, joinst, orig, before, after, base>>

\* :earlier N, :later N, :earlier Nf and :later Nf
TimeTravel ==
  \E step \in RelSteps, file \in BOOLEAN :
    /\ Commit(undo_time(St, step, FALSE, file, FALSE))
    /\ joinst' = 0 /\ UNCHANGED <<envvars, nsaves, orig, before, after, base, written>>



\* u_undo_and_forget() with a count.
Forget ==
  \E count \in 1 .. 2 :
    /\ Commit(u_undo_and_forget(St, count))
    /\ joinst' = 0 /\ UNCHANGED <<envvars, nsaves, orig, before, after, base, written>>


\* A line is deleted and no entry is made for it: u_savecommon() returns OK
\* without saving when 'undolevels' is negative while the header is open, and
\* the entries there are no longer fit the buffer.
UnsavedDelete ==
  /\ b_u_numhead > 0
  /\ ml_line_count(St) > 1
  /\ \E l \in 1 .. ml_line_count(St) :
       Commit(check_cursor(changed(ml_delete(St, l))))
  /\ UNCHANGED <<envvars, joinst, nsaves, orig, before, after, base, written>>


\* The undo file is read when the buffer is loaded, before a change is made.
ReadUndo ==
  /\ nalloc = 0
  /\ \E f \in UndoFiles(St, u_compute_hash(St)) : Commit(u_read_undo(St, f, u_compute_hash(St)))
  /\ UNCHANGED <<envvars, histvars>>

\* An extmark undo object is recorded.
RecordExtmark ==
  /\ nalloc < MaxHdr
  /\ \A h \in HdrIds : Len(uh[h].uh_extmark) < MaxMarks
  /\ \E extup \in ExtmarkObjects : Commit(u_extmark(St, extup))
  /\ nsaves' = IF b_u_curhead = 0 /\ b_u_newhead = 0 THEN nsaves + 1 ELSE nsaves
  /\ UNCHANGED <<envvars, joinst, orig, before, after, base, written>>

\* Changes, "u" and CTRL-R.
Next == SaveEdit \/ Sync \/ Undo \/ Redo

Spec == Init /\ [][Next]_vars

\* The start without the 'u' flag in 'cpoptions'.
InitVim == Init /\ ~cpo_u

\* Changes, :undojoin and "u".
NextJoin == SaveEdit \/ Sync \/ UndoJoin \/ Undo

SpecJoin == InitVim /\ [][NextJoin]_vars

\* Changes, and moving through the undo tree by sequence number only.
NextTime == SaveEdit \/ Sync \/ UndoTime

SpecTime == InitVim /\ [][NextTime]_vars


\* Changes and writing the buffer.
NextSaved == SaveEdit \/ Sync \/ Write

SpecSaved == InitVim /\ [][NextSaved]_vars

\* Changes, writing the buffer, and moving through the undo tree.
NextWritten == SaveEdit \/ Sync \/ Write \/ Undo \/ Redo \/ TimeTravel

SpecWritten == InitVim /\ [][NextWritten]_vars


\* One change per command, made 100 seconds after the one before: the changes
\* are made at the times 100, 200, 300.
TimedChange ==
  /\ b_u_synced /\ b_u_curhead = 0
  /\ nsaves < MaxHdr
  /\ \E e \in Edits(St) :
     \E r \in SaveRanges(St, e) :
       SaveEditSaved(u_save_buf([St EXCEPT !.now = 100 * (b_u_seq_last + 1)],
                                r.top, r.bot, -1), e)
  /\ nsaves' = nsaves + 1
  /\ joinst' = 0
  /\ UNCHANGED <<p_ul, cpo_u, orig, written>>

\* The start with room for every change in the undo tree.
InitTimed == InitVim /\ p_ul = MaxHdr

\* Timed changes, "u" and CTRL-R.
NextTimed == TimedChange \/ Sync \/ Undo \/ Redo

SpecTimed == InitTimed /\ [][NextTimed]_vars


\* The operations that move through the undo tree: changes, "u", CTRL-R,
\* :undo N, :earlier and :later.
NextTree == TreeChange \/ Sync \/ Undo \/ Redo \/ UndoTime \/ TimeTravel

SpecTree == InitVim /\ [][NextTree]_vars

\* The same operations and u_undo_and_forget().
NextForget == TreeChange \/ Sync \/ Undo \/ Redo \/ UndoTime \/ TimeTravel \/ Forget

SpecForget == InitVim /\ [][NextForget]_vars

\* Changes, "u" and CTRL-R, and lines deleted without a save.
NextStale == SaveEdit \/ Sync \/ Undo \/ Redo \/ UnsavedDelete

SpecStale == InitVim /\ [][NextStale]_vars

\* Changes with extmark undo objects, and "u".
NextMarks == TreeChange \/ Sync \/ Undo \/ RecordExtmark

SpecMarks == InitTimed /\ [][NextMarks]_vars

\* Undo files are read.
NextRead == ReadUndo

SpecRead == InitTimed /\ [][NextRead]_vars

\* ------------------------------------------------------------ properties
Live == {h \in HdrIds : uh[h].live}
\* The header with sequence number n.
HdrOfSeq(n) == CHOOSE h \in Live : uh[h].uh_seq = n
\* The text right after change n was completed; change 0 is the original text.
ContentAfter(n) == IF n = 0 THEN orig ELSE after[HdrOfSeq(n)]
\* A linear history: no alternate branches, and every change still has its header.
Linear ==
  /\ \A h \in Live : uh[h].uh_alt_next = 0 /\ uh[h].uh_alt_prev = 0
  /\ b_u_numhead = b_u_seq_last
  /\ b_u_numhead = Cardinality(Live)

\* C1: after saves (u_save, newbot unknown, coalesced single-line saves
\* included) each followed by an edit inside the saved range, all recorded in
\* the header b_u_newhead, one undo step (u_undo(1)) restores the buffer to
\* exactly the text it had when that header was created.
C1_UndoRestoresHeaderStart ==
  (b_u_curhead = 0 /\ b_u_newhead # 0)
    => LET s == u_undo(St, 1)
       IN s.cnt = 1 /\ s.lines = before[b_u_newhead] /\ ~s.err

\* C1 witness: a header holding several entries has been undone in one step.
C1_Witness ==
  /\ b_u_curhead # 0 /\ uh[b_u_curhead].uh_prev = 0
  /\ Len(uh[b_u_curhead].uh_entry) >= 2
  /\ b_u_time_cur = uh[b_u_curhead].uh_time
  /\ lines = before[b_u_curhead]
  /\ lines # after[b_u_curhead]

\* C2: for every header that can be undone, applying it in the undo direction
\* and then in the redo direction leaves the lines of the buffer and its
\* changed flag exactly as before the undo.
C2_ApplyInverse ==
  LET s0 == u_sync(St)
      h == IF s0.b_u_curhead = 0 THEN s0.b_u_newhead ELSE s0.uh[s0.b_u_curhead].uh_next
      s1 == u_undoredo([s0 EXCEPT !.b_u_curhead = h], TRUE)
      s2 == u_undoredo(s1, FALSE)
  IN h # 0 => /\ s2.lines = lines
              /\ s2.b_changed = b_changed
              /\ ~s2.err

\* C2 witness: the newest header was undone and redone, the buffer has the
\* text again that the change made.
C2_Witness ==
  /\ b_u_curhead = 0 /\ b_u_newhead # 0 /\ b_u_synced
  /\ b_u_time_cur = uh[b_u_newhead].uh_time
  /\ lines = after[b_u_newhead]
  /\ lines # before[b_u_newhead]
  /\ b_changed

\* The statement of C3 for the state at hand: u_undo(1) from seq_cur = i >= 1
\* gives the text right after change i-1 and seq_cur = i-1; u_redo(1) from
\* seq_cur = i < n gives the text after change i+1 and seq_cur = i+1; after the
\* last change was redone b_u_curhead is NULL.
UndoRedoStep ==
  /\ b_u_seq_cur >= 1
       => LET s == u_undo(St, 1)
          IN /\ s.lines = ContentAfter(b_u_seq_cur - 1)
             /\ s.b_u_seq_cur = b_u_seq_cur - 1
  /\ b_u_seq_cur < b_u_seq_last
       => LET s == u_redo(St, 1)
          IN /\ s.lines = ContentAfter(b_u_seq_cur + 1)
             /\ s.b_u_seq_cur = b_u_seq_cur + 1
             /\ (b_u_seq_cur + 1 = b_u_seq_last => s.b_u_curhead = 0)

\* C3 as amended: in a linear history of n synced changes with 'undolevels' > 0
\* and without the 'u' flag in 'cpoptions', u_undo(1) from seq_cur = i >= 1
\* gives the text right after change i-1 and seq_cur = i-1; u_redo(1) from
\* seq_cur = i < n gives the text after change i+1 and seq_cur = i+1; after the
\* last change was redone b_u_curhead is NULL.
C3_LinearUndoRedo ==
  (Linear /\ b_u_synced /\ p_ul > 0 /\ ~cpo_u) => UndoRedoStep

\* C3 as stated, for every linear history with 'undolevels' > 0, whatever
\* 'cpoptions' holds.
C3_AsStated ==
  (Linear /\ b_u_synced /\ p_ul > 0) => UndoRedoStep

\* C3 witness: two changes were undone and the first one redone.
C3_Witness ==
  /\ Linear /\ b_u_synced /\ p_ul > 0 /\ ~cpo_u
  /\ b_u_seq_last = 2 /\ b_u_seq_cur = 1
  /\ b_u_curhead = HdrOfSeq(2)
  /\ b_u_time_cur = uh[HdrOfSeq(1)].uh_time
  /\ ~undo_undoes
  /\ lines = after[HdrOfSeq(1)]

\* C5: when a synced save is made after undoing (b_u_curhead not NULL) and
\* b_u_numhead is below 'undolevels', no header is freed; the new header gets
\* seq = b_u_seq_last + 1, becomes b_u_newhead, has uh_alt_next equal to the
\* former b_u_curhead, b_u_curhead becomes NULL and b_u_numhead grows by one.
C5_BranchKeepsHistory ==
  (b_u_synced /\ b_u_curhead # 0 /\ b_u_numhead < p_ul /\ nalloc < MaxHdr)
    => \A top \in 0 .. Len(lines), bot \in 1 .. Len(lines) + 1 :
         top < bot =>
           LET s == u_save_buf(St, top, bot, -1)
               n == nalloc + 1
           IN /\ s.ret = "OK"
              /\ \A h \in Live : s.uh[h].live
              /\ s.uh[n].live
              /\ s.uh[n].uh_seq = b_u_seq_last + 1
              /\ s.b_u_seq_last = b_u_seq_last + 1
              /\ s.b_u_newhead = n
              /\ s.uh[n].uh_alt_next = b_u_curhead
              /\ s.b_u_curhead = 0
              /\ s.b_u_numhead = b_u_numhead + 1

\* C5 witness: a change was made after an undo, the undone header is now the
\* alternate of the new one.
C5_Witness ==
  /\ b_u_newhead # 0 /\ b_u_curhead = 0 /\ ~b_u_synced
  /\ uh[b_u_newhead].uh_alt_next # 0
  /\ uh[uh[b_u_newhead].uh_alt_next].live
  /\ uh[b_u_newhead].uh_seq = 2
  /\ b_u_numhead = 2 /\ b_u_seq_last = 2

\* C10: after ex_undojoin went through (b_u_newhead not NULL, b_u_curhead NULL,
\* synced, 'undolevels' >= 0) the next save creates no header and puts its
\* entry in the existing b_u_newhead (b_u_numhead and b_u_seq_last unchanged),
\* so that one undo step reverts both changes; ex_undojoin while b_u_curhead is
\* not NULL is refused and leaves b_u_synced as it is.
C10_UndoJoin ==
  LET j == ex_undojoin(St)
  IN /\ (b_u_newhead # 0 /\ b_u_curhead = 0 /\ b_u_synced /\ p_ul >= 0)
          => /\ j.ret = "OK"
             /\ \A e \in Edits(St) : \A r \in SaveRanges(St, e) :
                  LET sv == u_save_buf(j, r.top, r.bot, -1)
                      u == u_undo(ApplyEdit(sv, e), 1)
                  IN /\ sv.ret = "OK"
                     /\ sv.nalloc = nalloc
                     /\ sv.b_u_newhead = b_u_newhead
                     /\ sv.b_u_numhead = b_u_numhead
                     /\ sv.b_u_seq_last = b_u_seq_last
                     /\ sv.uh[b_u_newhead].uh_entry[1].ue_top = r.top
                     /\ sv.uh[b_u_newhead].uh_entry[1].ue_size = r.bot - r.top - 1
                     /\ u.cnt = 1
                     /\ u.lines = before[b_u_newhead]
     /\ b_u_curhead # 0
          => /\ j.ret # "OK"
             /\ j = [St EXCEPT !.ret = j.ret]

\* C10 witness: a save was recorded after :undojoin, in the header that was
\* closed before; one undo step from here gives the text from before that header.
C10_Witness ==
  /\ joinst = 2
  /\ b_u_seq_last = 1 /\ b_u_numhead = 1
  /\ Len(uh[b_u_newhead].uh_entry) >= 2
  /\ lines # before[b_u_newhead]
  /\ u_undo(St, 1).lines = before[b_u_newhead]

\* undo_time(N, absolute) for every header with seq N in the tree, on the
\* current branch or on an alternate branch, leaves the buffer with the text it
\* had right after change N was completed, and seq_cur = N.
AbsoluteSeq ==
  \A h \in Live :
    LET s == undo_time(St, uh[h].uh_seq, FALSE, FALSE, TRUE)
    IN /\ s.ret = "OK"
       /\ s.lines = after[h]
       /\ s.b_u_seq_cur = uh[h].uh_seq

\* No header was freed and undo was never off: every change is in the tree.
NothingDiscarded == p_ul >= 0 /\ nalloc = Cardinality(Live)

RECURSIVE ReachFrom(_)
ReachFrom(S) ==
  LET T == (S \cup {uh[h].uh_next : h \in S} \cup {uh[h].uh_prev : h \in S}
              \cup {uh[h].uh_alt_next : h \in S}
              \cup {uh[h].uh_alt_prev : h \in S}) \ {0}
  IN IF T = S THEN S ELSE ReachFrom(T)
Reachable == ReachFrom({b_u_oldhead} \ {0})
\* The leaves: the reachable headers without a newer header below them.
Leaves == {h \in Reachable : uh[h].uh_prev = 0}

\* C11: ex_undolist lists exactly the leaves of the tree, the headers that are
\* reachable from b_u_oldhead and whose uh_prev is NULL, each of them once, and
\* no other header.
C11_UndolistLeaves ==
  /\ {ex_undolist(St)[i].seq : i \in 1 .. Len(ex_undolist(St))}
       = {uh[h].uh_seq : h \in Leaves}
  /\ Len(ex_undolist(St)) = Cardinality(Leaves)

\* A tree with two branches: :undolist shows two leaves.
C11_Witness ==
  /\ Cardinality(Leaves) = 2
  /\ Len(ex_undolist(St)) = 2
  /\ \E h \in Leaves : uh[h].uh_alt_next # 0

\* The header with the greatest sequence number in the tree.
NewestHdr == CHOOSE h \in Live : \A g \in Live : uh[g].uh_seq <= uh[h].uh_seq

\* The relative steps of undo_time(step, Seq).
SeqSteps == (0 - (MaxHdr + 1) .. MaxHdr + 1) \ {0}

\* No relative step by sequence number ends with an error.
SeqStepNeverFails ==
  \A step \in SeqSteps :
    undo_time(St, step, FALSE, FALSE, FALSE).ret \in {"OK", "already"}

\* A step forward past the last change goes to the header with the greatest
\* sequence number in the tree, or says that the buffer is there already.
SeqStepForwardClamped ==
  \A step \in SeqSteps :
    LET s == undo_time(St, step, FALSE, FALSE, FALSE)
    IN step > 0 /\ b_u_seq_cur + step > b_u_seq_last /\ Live # {}
       => IF s.ret = "already"
            THEN s.lines = lines /\ b_u_seq_cur >= uh[NewestHdr].uh_seq
            ELSE /\ s.b_u_seq_cur = uh[NewestHdr].uh_seq
                 /\ s.b_u_curhead = 0
                 /\ s.lines = after[NewestHdr]

BadRanges ==
  {r \in [top : 0 .. MaxLines + 2, bot : 0 .. MaxLines + 2] :
     r.top >= r.bot \/ r.bot > ml_line_count(St) + 1}

\* C15: u_save_buf with top >= bot or bot > line_count + 1 returns FAIL and
\* leaves the tree, the three heads, numhead, seq_last, seq_cur, synced and the
\* saved U line as they were (and the rest of the state as well).
C15_BadRangeFails ==
  \A r \in BadRanges : u_save_buf(St, r.top, r.bot, -1) = [St EXCEPT !.ret = "FAIL"]

\* C15 witness: a refused save in a state with an open header, two headers and
\* a saved U line.
C15_Witness ==
  /\ ~b_u_synced /\ b_u_numhead = 2 /\ b_u_line_ptr # NoLine
  /\ u_save_buf(St, 1, 1, -1).ret = "FAIL"
  /\ u_save_buf(St, 0, ml_line_count(St) + 2, -1).ret = "FAIL"
  /\ u_save_buf(St, 0, ml_line_count(St) + 1, -1).ret = "OK"

\* The ranges u_save_buf accepts.
GoodRanges ==
  {r \in [top : 0 .. MaxLines, bot : 1 .. MaxLines + 1] :
     r.top < r.bot /\ r.bot <= ml_line_count(St) + 1}

\* The state after 'undolevels' was set to -1.
NoUndoSt == [St EXCEPT !.p_ul = -1]

\* The save returns OK, makes no header and leaves the header open.
SaveWithoutUndo(s) ==
  /\ s.ret = "OK"
  /\ s.nalloc = nalloc
  /\ ~s.b_u_synced

\* C16 as amended: when undolevels < 0 and there is history, a save made while
\* synced returns OK, creates no header, sets synced = false and frees the
\* whole tree: no header is left, numhead = 0 and the three heads are NULL.
C16_NoUndoFreesTree ==
  b_u_synced /\ b_u_numhead > 0
    => \A r \in GoodRanges :
         LET s == u_save_buf(NoUndoSt, r.top, r.bot, -1)
         IN /\ SaveWithoutUndo(s)
            /\ \A h \in HdrIds : ~s.uh[h].live
            /\ s.b_u_numhead = 0
            /\ s.b_u_oldhead = 0 /\ s.b_u_newhead = 0 /\ s.b_u_curhead = 0

\* C16 witness: a synced state with two headers, all of them freed by the save.
C16_Witness ==
  /\ b_u_synced /\ b_u_numhead = 2 /\ Cardinality(Live) = 2
  /\ LET s == u_save_buf(NoUndoSt, 0, 2, -1)
     IN s.ret = "OK" /\ s.b_u_numhead = 0 /\ \A h \in HdrIds : ~s.uh[h].live

\* C16 as stated: the save with undolevels < 0 frees no header and leaves
\* numhead as it was.
C16_AsStated ==
  b_u_synced /\ b_u_numhead > 0
    => \A r \in GoodRanges :
         LET s == u_save_buf(NoUndoSt, r.top, r.bot, -1)
         IN /\ SaveWithoutUndo(s)
            /\ \A h \in Live : s.uh[h].live
            /\ s.b_u_numhead = b_u_numhead

\* The header that "u" would undo in the state at hand, or 0.
NextUndone == IF b_u_curhead = 0 THEN b_u_newhead ELSE uh[b_u_curhead].uh_next

\* The state after NextUndone was applied in the undo direction and then in
\* the redo direction.
UndoneRedone == u_undoredo(u_undoredo([St EXCEPT !.b_u_curhead = NextUndone], TRUE), FALSE)

\* C18 as amended: after the undo and the redo of a header the cursor is on a
\* line of the buffer, at the place the replay of the header gives it: undoing
\* and redoing the header once more leaves the cursor there.
C18_CursorAfterUndoRedo ==
  NextUndone # 0
    => /\ UndoneRedone.w_cursor.lnum \in 1 .. ml_line_count(UndoneRedone)
       /\ u_undoredo(u_undoredo([UndoneRedone EXCEPT !.b_u_curhead = NextUndone], TRUE),
                     FALSE).w_cursor = UndoneRedone.w_cursor

\* C18 witness: the change moved the cursor from line 1, where it was when the
\* header was made, to line 2; after undo and redo the cursor is on line 1.
C18_Witness ==
  /\ b_u_synced /\ NextUndone # 0
  /\ w_cursor.lnum = 2
  /\ uh[NextUndone].uh_cursor.lnum = 1
  /\ UndoneRedone.lines = lines
  /\ UndoneRedone.w_cursor.lnum = 1

\* C18 as stated: after the undo and the redo of a header the cursor is where
\* it was before the undo.
C18_AsStated ==
  NextUndone # 0 => UndoneRedone.w_cursor = w_cursor

\* The state after two u_undo(1) calls in a row.
UndoTwice == u_undo(u_undo(St, 1), 1)

\* C20: with the 'u' flag in 'cpoptions' the second of two u_undo(1) calls in
\* a row, with no save in between, acts as a redo: the text after the pair is
\* the text before it.  Without the flag every u_undo is an undo and every
\* u_redo is a redo.
C20_AsStated ==
  /\ cpo_u => UndoTwice.lines = lines
  /\ ~cpo_u => u_undo(St, 1).undo_undoes /\ ~u_redo(St, 1).undo_undoes

\* C20, the failing input: 'undolevels' is 0, the 'u' flag is set and one
\* change was made; the first "u" undoes it, the second "u" has the redo
\* direction but changes nothing.
C20_Witness ==
  /\ cpo_u /\ p_ul = 0 /\ b_u_numhead = 1 /\ b_u_curhead = 0 /\ b_u_synced
  /\ u_undo(St, 1).lines # lines
  /\ u_undo(St, 1).undo_undoes
  /\ ~UndoTwice.undo_undoes
  /\ UndoTwice.lines = u_undo(St, 1).lines

\* "U" can be used: a line is saved for it, and the save that "U" makes has a
\* header to use.
CanUndoLine ==
  /\ b_u_line_ptr # NoLine /\ b_u_line_lnum <= ml_line_count(St)
  /\ (nalloc < MaxHdr \/ ~b_u_synced \/ p_ul < 0)

\* C19: two u_undoline calls in a row, with no edit in between, give the saved
\* line the text it had before the first call (and change no other line); the
\* first call gives it the text that was saved for "U".
C19_UndolineTwice ==
  CanUndoLine
    => /\ u_undoline(St).ret = "OK"
       /\ u_undoline(St).lines[b_u_line_lnum] = b_u_line_ptr
       /\ u_undoline(u_undoline(St)).ret = "OK"
       /\ u_undoline(u_undoline(St)).lines = lines

\* C19 witness: the saved line differs from the line in the buffer, so that
\* the first "U" changes the text and the second changes it back.
C19_Witness ==
  /\ CanUndoLine
  /\ b_u_line_ptr # lines[b_u_line_lnum]
  /\ u_undoline(St).lines # lines
  /\ u_undoline(u_undoline(St)).lines = lines

\* The state after :earlier 1f, which is undo_time(-1, file).
EarlierFile == undo_time(St, -1, FALSE, TRUE, FALSE)

\* The buffer was written, and changes were made after that and synced.
ChangedSinceWrite == written.seq >= 0 /\ nsaves > written.n /\ b_u_synced

\* C12: after the buffer was written at state S and further changes were made
\* and synced, undo_time(-1, file) gives the buffer the text of state S; when
\* the buffer was never written, undo_time(-1, file) gives the original text
\* and seq_cur = 0.  Stated for the histories in which every change is still
\* in the tree.
C12_AsStated ==
  NothingDiscarded
    => /\ ChangedSinceWrite => EarlierFile.lines = written.text
       /\ written.seq < 0 => EarlierFile.lines = orig /\ EarlierFile.b_u_seq_cur = 0

\* C12, the failing input: the buffer was written before the first change;
\* after a change undo_time(-1, file) finds no header with the save number and
\* leaves the changed text.
C12_Witness ==
  /\ NothingDiscarded /\ ChangedSinceWrite
  /\ written.seq = 0 /\ b_u_save_nr_cur = 1 /\ b_u_numhead = 1
  /\ lines # written.text
  /\ EarlierFile.ret = "already"
  /\ EarlierFile.lines = lines

\* C12 where it holds: the buffer was written after at least one change, or
\* never.
C12_WrittenAfterChange ==
  NothingDiscarded
    => /\ ChangedSinceWrite /\ written.seq > 0 => EarlierFile.lines = written.text
       /\ written.seq < 0 => EarlierFile.lines = orig /\ EarlierFile.b_u_seq_cur = 0

\* The changed flag of state s tells whether s is at another place in the undo
\* tree than the state that was written.
FlagTracksWrite(s) == s.b_changed = (PosOf(s) # written.seq)

\* The states "u" and CTRL-R lead to when they apply a header, and the states
\* undo_time leads to when it moves the buffer to another place in the tree.
AfterApply ==
  {s \in {u_undo(St, 1), u_undo(St, 2), u_redo(St, 1), u_redo(St, 2)} : s.cnt > 0}
  \cup {s \in {undo_time(St, step, FALSE, FALSE, FALSE) : step \in RelSteps}
                \cup {undo_time(St, step, FALSE, TRUE, FALSE) : step \in RelSteps}
                \cup {undo_time(St, n, FALSE, FALSE, TRUE) : n \in 0 .. MaxHdr} :
          s.ret = "OK" /\ PosOf(s) # PosOf(St)}

ThreeTimedChanges ==
  /\ Linear /\ b_u_numhead = 3 /\ b_u_synced
  /\ \A k \in 1 .. 3 : uh[HdrOfSeq(k)].uh_time = 100 * k
  /\ b_u_seq_cur = 3 /\ b_u_curhead = 0 /\ b_u_time_cur = 300

\* The state after :earlier 150s, which is undo_time(-150, seconds).
Earlier150 == undo_time(St, 0 - 150, TRUE, FALSE, FALSE)

\* C13: in a linear tree with seqs 1, 2, 3 and times 100, 200, 300, at
\* seq_cur = 3 with cur_head null and time_cur = 300, undo_time(-150, seconds,
\* relative) leaves the buffer at seq_cur = 1, the state after change 1.
C13_AsStated ==
  ThreeTimedChanges
    => /\ Earlier150.b_u_seq_cur = 1
       /\ Earlier150.lines = after[HdrOfSeq(1)]

\* C13, the failing input: from the history of the example undo_time(-150,
\* seconds) undoes all three changes.
C13_Witness ==
  /\ ThreeTimedChanges
  /\ Earlier150.ret = "OK"
  /\ Earlier150.b_u_seq_cur = 0
  /\ Earlier150.lines = orig
  /\ Earlier150.b_u_curhead = HdrOfSeq(1)

RECURSIVE TreeFrom(_)
\* u_check_tree(): the headers that are counted, from a set of headers on
\* through uh_prev and uh_alt_next.
TreeFrom(S) ==
  LET T == (S \cup {uh[h].uh_prev : h \in S} \cup {uh[h].uh_alt_next : h \in S}) \ {0}
  IN IF T = S THEN S ELSE TreeFrom(T)

\* u_check(): u_check_tree(curbuf->b_u_oldhead, NULL, NULL)
Tree == TreeFrom({b_u_oldhead} \ {0})

\* C22: after every operation b_u_numhead is the number of headers that are
\* reached from b_u_oldhead through uh_prev and uh_alt_next, 0 when
\* b_u_oldhead is NULL.
C22_AsStated == b_u_numhead = Cardinality(Tree)

\* u_undo_and_forget() has forgotten the first header of the list of
\* alternates at the start of the tree: b_u_oldhead is NULL and the alternate
\* that was left is still counted.
C22_Witness ==
  /\ b_u_oldhead = 0
  /\ b_u_curhead # 0
  /\ uh[b_u_curhead].live
  /\ b_u_numhead = 1

\* ---------------------------------------------------------------- C23
\* The header the buffer is below: b_u_curhead->uh_next, or b_u_newhead when
\* nothing is undone.
NextUndoneSeq ==
  IF b_u_curhead # 0
    THEN (IF uh[b_u_curhead].uh_next # 0 THEN uh[uh[b_u_curhead].uh_next].uh_seq ELSE 0)
  ELSE IF b_u_newhead # 0 THEN uh[b_u_newhead].uh_seq
  ELSE 0

\* C23: after every operation b_u_seq_cur is the uh_seq of b_u_curhead->uh_next
\* when b_u_curhead is not NULL (0 when that is NULL), else the uh_seq of
\* b_u_newhead when that is not NULL, else 0.
C23_AsStated == b_u_seq_cur = NextUndoneSeq

\* undo_time() stopped above the oldest header, which is not the first change
\* any more, and set b_u_seq_cur to the number before it.
C23_Witness ==
  /\ b_u_curhead # 0
  /\ b_u_curhead = b_u_oldhead
  /\ uh[b_u_curhead].live
  /\ uh[b_u_curhead].uh_next = 0
  /\ b_u_seq_cur = uh[b_u_curhead].uh_seq - 1
  /\ b_u_seq_cur > 0

C25_AsStated ==
  /\ b_u_oldhead # 0 =>
       uh[b_u_oldhead].uh_next = 0 /\ uh[b_u_oldhead].uh_alt_prev = 0
  /\ \A h \in Tree :
       /\ uh[h].uh_prev # 0 =>
            uh[uh[h].uh_prev].uh_next = h /\ uh[uh[h].uh_prev].uh_alt_prev = 0
       /\ uh[h].uh_alt_next # 0 =>
            /\ uh[uh[h].uh_alt_next].uh_alt_prev = h
            /\ uh[uh[h].uh_alt_next].uh_next = uh[h].uh_next

\* After u_undo_and_forget() left b_u_oldhead NULL, the next change made its
\* header b_u_oldhead although an older header is before it.
C25_Witness ==
  /\ b_u_oldhead # 0
  /\ uh[b_u_oldhead].live
  /\ uh[b_u_oldhead].uh_next # 0
  /\ uh[uh[b_u_oldhead].uh_next].live

\* ---------------------------------------------------------------- C26
\* C26: after every operation b_u_newhead is reached from b_u_oldhead when
\* b_u_oldhead is not NULL, b_u_curhead is reached from b_u_oldhead when it is
\* not NULL, and none of the three heads is a freed header.
C26_AsStated ==
  /\ b_u_oldhead # 0 => b_u_newhead \in Tree
  /\ b_u_curhead # 0 => b_u_curhead \in Tree
  /\ \A h \in {b_u_oldhead, b_u_newhead, b_u_curhead} \ {0} : uh[h].live

\* b_u_oldhead is a header that u_undo_and_forget() has freed.
C26_Witness ==
  /\ b_u_oldhead # 0
  /\ ~uh[b_u_oldhead].live

\* ---------------------------------------------------------------- C27
\* What a save that returned OK has done to the headers, s being the state
\* after it: a new header that is b_u_newhead and has the next sequence
\* number when the save was made synced, nothing when it was not; b_u_synced
\* is false afterwards.
SaveOpensHeader(s) ==
  /\ ~s.b_u_synced
  /\ IF b_u_synced
       THEN /\ s.nalloc = nalloc + 1
            /\ s.b_u_newhead = s.nalloc
            /\ s.uh[s.b_u_newhead].live
            /\ s.uh[s.b_u_newhead].uh_seq = b_u_seq_last + 1
            /\ s.b_u_seq_last = b_u_seq_last + 1
       ELSE /\ s.nalloc = nalloc
            /\ s.b_u_newhead = b_u_newhead
            /\ s.b_u_seq_last = b_u_seq_last
            /\ s.b_u_numhead = b_u_numhead

\* C27: with 'undolevels' >= 0 a save that succeeds while b_u_synced is true
\* makes a new header, which becomes b_u_newhead with uh_seq = b_u_seq_last + 1,
\* a save that succeeds while b_u_synced is false makes no header and leaves
\* b_u_newhead and b_u_seq_last as they are, and b_u_synced is false after
\* every save that succeeds.
C27_SaveOpensHeader ==
  p_ul >= 0 /\ nalloc < MaxHdr =>
    \A r \in GoodRanges :
      LET s == u_save_buf(St, r.top, r.bot, -1)
      IN s.ret = "OK" => SaveOpensHeader(s)

\* A save in a header that is still open, after an earlier header was closed.
C27_Witness ==
  /\ p_ul >= 0
  /\ ~b_u_synced
  /\ b_u_seq_last = 2
  /\ \E r \in GoodRanges :
       LET s == u_save_buf(St, r.top, r.bot, -1)
       IN /\ s.ret = "OK"
          /\ s.b_u_newhead = b_u_newhead
          /\ Len(s.uh[s.b_u_newhead].uh_entry) > Len(uh[b_u_newhead].uh_entry)

\* ---------------------------------------------------------------- C28
RECURSIVE TreeAfter(_, _)
\* u_check_tree() in the state s a function has returned: the headers that
\* are counted, from a set of headers on through uh_prev and uh_alt_next.
TreeAfter(s, S) ==
  LET T == (S \cup {s.uh[h].uh_prev : h \in S}
              \cup {s.uh[h].uh_alt_next : h \in S}) \ {0}
  IN IF T = S THEN S ELSE TreeAfter(s, T)

RECURSIVE SpineEnd(_, _)
\* The oldest header of the list that starts at header h and goes on through
\* uh_next, in the state s.
SpineEnd(s, h) ==
  IF h = 0 THEN 0
  ELSE IF s.uh[h].uh_next = 0 THEN h
  ELSE SpineEnd(s, s.uh[h].uh_next)

\* The headers after a save, s being the state after it and k 'undolevels'.
SaveKeepsSize(s, k) ==
  /\ s.b_u_numhead <= k + 1
  /\ s.b_u_oldhead # 0
  /\ s.uh[s.b_u_oldhead].live
  /\ s.uh[s.b_u_oldhead].uh_next = 0
  /\ s.b_u_oldhead = SpineEnd(s, s.b_u_newhead)
  /\ {h \in HdrIds : s.uh[h].live} = TreeAfter(s, {s.b_u_oldhead})

MaxRepeats == 3

\* The texts the line gets, one before each repeated save.
TextSeqs == UNION {[1 .. n -> Texts] : n \in 1 .. MaxRepeats}

RECURSIVE RepeatSave(_, _, _)
\* The line below "top" gets a text and u_save(top, top + 2) is called, for
\* one text of ts after the other, with no u_sync() in between.
RepeatSave(s, top, ts) ==
  IF ts = << >> THEN s
  ELSE RepeatSave(
         u_save_buf(ApplyEdit(s, [kind |-> "rep", lnum |-> top + 1, text |-> Head(ts)]),
                    top, top + 2, -1),
         top, Tail(ts))

\* The entries of b_u_newhead.
HeadEntries(s) == IF s.b_u_newhead = 0 THEN << >> ELSE s.uh[s.b_u_newhead].uh_entry

\* The entries of b_u_newhead that hold the one line below "top".
SameLineEntries(s, top) ==
  {i \in 1 .. Len(HeadEntries(s)) :
     HeadEntries(s)[i].ue_size = 1 /\ HeadEntries(s)[i].ue_top = top}

\* s1 is the state after the first save of the line and s the state after the
\* repeated saves.
RepeatAddsNoEntry(s1, s, top) ==
  /\ s.ret = "OK"
  /\ s.nalloc = s1.nalloc
  /\ s.b_u_newhead = s1.b_u_newhead
  /\ Len(HeadEntries(s)) = Len(HeadEntries(s1))
  /\ 1 \in SameLineEntries(s, top)
  /\ HeadEntries(s)[1].ue_array = HeadEntries(s1)[1].ue_array
  /\ (b_u_synced \/ SameLineEntries(St, top) = {}) =>
       /\ SameLineEntries(s, top) = {1}
       /\ HeadEntries(s)[1].ue_array = <<lines[top + 1]>>

\* C29: after u_save(top, top + 2), further saves of the same line in the same
\* header, with the line changed but no line added or deleted in between, add
\* no entry; the header keeps one entry of size 1 with that top when the first
\* save was the first of that line in the header, and the line it holds is
\* the text the first save took.
C29_RepeatedSaveReuses ==
  p_ul >= 0 /\ nalloc < MaxHdr =>
    \A top \in 0 .. ml_line_count(St) - 1 :
      LET s1 == u_save_buf(St, top, top + 2, -1)
      IN s1.ret = "OK" =>
           \A ts \in TextSeqs : RepeatAddsNoEntry(s1, RepeatSave(s1, top, ts), top)

\* Two saves were made in the one header there is and it has one entry, of
\* one line: the second save re-used the entry of the first.
C29_Witness ==
  /\ nsaves = 2
  /\ nalloc = 1
  /\ ~b_u_synced
  /\ b_u_newhead = 1
  /\ Len(uh[1].uh_entry) = 1
  /\ uh[1].uh_entry[1].ue_size = 1
  /\ ml_line_count(St) = MaxLines

\* ---------------------------------------------------------------- C30
\* The entries of b_u_newhead that are looked at: the ten last.
ScannedEntries(s) ==
  {i \in 1 .. Len(HeadEntries(s)) : i <= CoalesceScan}

\* "If lines have been inserted/deleted": entry i of b_u_newhead does not end
\* where its size says, or the line count is not what it was at the save.
EntryChangedCount(s, i) ==
  LET uep == HeadEntries(s)[i]
  IN IF s.uh[s.b_u_newhead].uh_getbot_entry = i
       THEN uep.ue_lcount # ml_line_count(s)
       ELSE uep.ue_top + uep.ue_size + 1
              # (IF uep.ue_bot = 0 THEN ml_line_count(s) + 1 ELSE uep.ue_bot)

\* "the line was included in a multi-line save"
EntryIncludesLine(s, i, top) ==
  LET uep == HeadEntries(s)[i]
  IN uep.ue_size > 1 /\ top >= uep.ue_top /\ top + 2 <= uep.ue_top + uep.ue_size + 1

\* s is the state after a save made in the state of the model: the save has
\* put a new entry with the saved lines in front of the entries there were.
SaveAddsEntry(s, top, bot) ==
  /\ s.b_u_newhead = b_u_newhead
  /\ Len(HeadEntries(s)) = Len(HeadEntries(St)) + 1
  /\ HeadEntries(s)[1].ue_top = top
  /\ HeadEntries(s)[1].ue_array = SubSeq(lines, top + 1, bot - 1)
  /\ \A i \in 1 .. Len(HeadEntries(St)) :
       HeadEntries(s)[i + 1].ue_array = HeadEntries(St)[i].ue_array

\* The claim as it is stated: a save of one line in the open header adds an
\* entry whenever one of the ten last entries of b_u_newhead is not of size 1
\* or has changed the line count.
C30_AsStated ==
  p_ul >= 0 /\ ~b_u_synced =>
    \A top \in 0 .. ml_line_count(St) - 1 :
      LET s == u_save_buf(St, top, top + 2, -1)
      IN (/\ s.ret = "OK"
          /\ \E j \in ScannedEntries(St) :
               HeadEntries(St)[j].ue_size # 1 \/ EntryChangedCount(St, j))
         => SaveAddsEntry(s, top, top + 2)

\* C30: a save of one line in the open header adds an entry, and re-uses
\* none, when one of the ten last entries of b_u_newhead has changed the line
\* count or is of more than one line and includes the line, and no entry of
\* size 1 with the same top was saved after it.
C30_NoReuseAfterCountChange ==
  p_ul >= 0 /\ ~b_u_synced =>
    \A top \in 0 .. ml_line_count(St) - 1 :
      LET s == u_save_buf(St, top, top + 2, -1)
      IN (/\ s.ret = "OK"
          /\ \E j \in ScannedEntries(St) :
               /\ EntryChangedCount(St, j) \/ EntryIncludesLine(St, j, top)
               /\ \A m \in 1 .. j - 1 : m \notin SameLineEntries(St, top))
         => SaveAddsEntry(s, top, top + 2)

\* The last entry holds the line that is saved again, and a line was deleted
\* since: the save adds an entry.
C30_Witness ==
  /\ p_ul >= 0
  /\ ~b_u_synced
  /\ \E top \in 0 .. ml_line_count(St) - 1 :
       LET s == u_save_buf(St, top, top + 2, -1)
       IN /\ s.ret = "OK"
          /\ 1 \in SameLineEntries(St, top)
          /\ EntryChangedCount(St, 1)
          /\ SaveAddsEntry(s, top, top + 2)

\* ---------------------------------------------------------------- C31
\* The saves that are interrupted while the lines are copied: a range
\* u_save accepts and the round of the copy loop in which got_int is set.
CancelledSaves ==
  {[top |-> r.top, bot |-> r.bot, at |-> a] :
     r \in GoodRanges, a \in 0 .. MaxLines - 1} \cap
  {c \in [top : 0 .. MaxLines, bot : 1 .. MaxLines + 1, at : 0 .. MaxLines - 1] :
     c.at < c.bot - c.top - 1}

\* The undo tree of the state s is the one of the state of the model.
TreeUntouched(s) ==
  /\ s.nalloc = nalloc
  /\ s.b_u_numhead = b_u_numhead
  /\ s.b_u_seq_last = b_u_seq_last
  /\ s.b_u_seq_cur = b_u_seq_cur
  /\ s.b_u_oldhead = b_u_oldhead
  /\ s.b_u_newhead = b_u_newhead
  /\ s.b_u_curhead = b_u_curhead
  /\ s.b_u_synced = b_u_synced
  /\ \A h \in HdrIds : s.uh[h].live = uh[h].live /\ s.uh[h].uh_entry = uh[h].uh_entry

\* C31: a save that is interrupted while it copies the lines returns FAIL and
\* leaves the tree as it was: no header more, b_u_numhead, b_u_seq_last,
\* b_u_seq_cur, the three heads, b_u_synced and the entries of every header
\* are what they were before the call.
C31_AsStated ==
  p_ul >= 0 /\ nalloc < MaxHdr =>
    \A c \in CancelledSaves :
      LET s == u_save_buf(St, c.top, c.bot, c.at)
      IN s.ret = "FAIL" /\ TreeUntouched(s)

\* An interrupted save returns FAIL after it has made a header.
C31_Witness ==
  /\ p_ul >= 0
  /\ nalloc < MaxHdr
  /\ b_u_synced
  /\ b_u_numhead >= 1
  /\ \E c \in CancelledSaves :
       LET s == u_save_buf(St, c.top, c.bot, c.at)
       IN /\ s.ret = "FAIL"
          /\ s.b_u_numhead = b_u_numhead + 1
          /\ s.b_u_seq_last = b_u_seq_last + 1
          /\ s.uh[s.b_u_newhead].uh_entry = << >>

\* ---------------------------------------------------------------- C32
\* C32: the walk of u_write_undo ends, serialize_uhp is called once for each
\* header that is reached from b_u_oldhead through uh_prev and uh_alt_next
\* and for no other, and the number of headers written is b_u_numhead.
C32_WalkWritesAll ==
  LET w == WrittenHeaders(St)
  IN /\ w.ended
     /\ \A i, j \in 1 .. Len(w.hdrs) : w.hdrs[i] = w.hdrs[j] => i = j
     /\ {w.hdrs[i] : i \in 1 .. Len(w.hdrs)} = Tree
     /\ Len(w.hdrs) = b_u_numhead

\* A tree of three headers with an alternate branch, all three written.
C32_Witness ==
  /\ b_u_numhead = MaxHdr
  /\ \E h \in Live : uh[h].uh_alt_next # 0
  /\ \E h \in Live : uh[h].uh_prev # 0
  /\ Len(WrittenHeaders(St).hdrs) = MaxHdr

\* ---------------------------------------------------------------- C33
\* u_undo_and_forget() up to the return of u_doit(): the state in which
\* b_u_curhead is the header to forget.
ForgetUndo(s, count) ==
  u_doit([(IF ~s.b_u_synced THEN u_sync(s) ELSE s) EXCEPT !.undo_undoes = TRUE],
         IF ~s.b_u_synced THEN 1 ELSE count)

\* What u_undo_and_forget() is to do with the header b_u_curhead of the state
\* u, s being the state it returns in.
Forgotten(u, s) ==
  LET to_forget == u.b_u_curhead
      alt == u.uh[to_forget].uh_alt_next
      parent == u.uh[to_forget].uh_next
  IN /\ \A h \in {to_forget} \cup TreeAfter(u, {u.uh[to_forget].uh_prev} \ {0}) :
          ~s.uh[h].live
     /\ alt # 0 =>
          /\ s.uh[alt].live
          /\ s.b_u_curhead = alt
          /\ s.uh[alt].uh_alt_prev = u.uh[to_forget].uh_alt_prev
          /\ parent # 0 => s.uh[parent].uh_prev = alt
          /\ u.b_u_oldhead = to_forget => s.b_u_oldhead = alt
     /\ s.b_u_seq_last = IF u.b_u_seq_last = u.uh[to_forget].uh_seq
                           THEN u.b_u_seq_last - 1 ELSE u.b_u_seq_last

\* C33: when u_undo_and_forget() returns true, the header that was undone
\* last and the headers that redo from it are freed; the next alternate of
\* that header, when it has one, is b_u_curhead, has its uh_alt_prev, is the
\* uh_prev of its parent and is b_u_oldhead when the forgotten header was;
\* b_u_seq_last is one less when it was the uh_seq of the forgotten header,
\* and as it was otherwise.
C33_AsStated ==
  \A count \in 1 .. 2 :
    LET u == ForgetUndo(St, count)
        s == ForgetAfterUndo(u)
    IN s.ret = "OK" => Forgotten(u, s)

\* The header that is forgotten is b_u_oldhead and has an alternate: the
\* alternate is b_u_curhead afterwards and b_u_oldhead is NULL.
C33_Witness ==
  \E count \in 1 .. 2 :
    LET u == ForgetUndo(St, count)
        s == ForgetAfterUndo(u)
    IN /\ s.ret = "OK"
       /\ u.b_u_oldhead = u.b_u_curhead
       /\ u.uh[u.b_u_curhead].uh_alt_next # 0
       /\ s.b_u_curhead = u.uh[u.b_u_curhead].uh_alt_next
       /\ s.uh[s.b_u_curhead].live
       /\ s.b_u_oldhead = 0

\* ---------------------------------------------------------------- C34
\* The state s after a call is the state of the model but for the flag that
\* the buffer is changed: the lines, the entries of every header,
\* b_u_curhead and b_u_seq_cur.
NothingApplied(s) ==
  /\ s.lines = lines
  /\ \A h \in HdrIds : s.uh[h].uh_entry = uh[h].uh_entry
  /\ s.b_u_curhead = b_u_curhead
  /\ s.b_u_seq_cur = b_u_seq_cur
  /\ s.b_changed

NothingDone(s) ==
  /\ s.lines = lines
  /\ s.b_u_seq_cur = b_u_seq_cur
  /\ s.b_u_numhead = b_u_numhead
  /\ \A h \in HdrIds : s.uh[h].live = uh[h].live

\* Every change is undone: the header undone last has no uh_next, or there
\* is no header.
AllUndone == (b_u_curhead # 0 /\ uh[b_u_curhead].uh_next = 0) \/ b_u_numhead = 0

\* The claim as it is stated: u_undo(1) when every change is undone, and
\* u_redo(1) when b_u_curhead is NULL, leave the lines, b_u_seq_cur,
\* b_u_numhead and the set of headers as they are.
C35_AsStated ==
  /\ AllUndone => NothingDone(u_undo(St, 1))
  /\ b_u_curhead = 0 => NothingDone(u_redo(St, 1))

\* C35: with 'undolevels' > 0, or with no header at all, u_undo(1) when every
\* change is undone leaves the lines, b_u_seq_cur, b_u_numhead and the set of
\* headers as they are; so does u_redo(1) when b_u_curhead is NULL.
C35_NothingToDo ==
  /\ AllUndone /\ (p_ul > 0 \/ b_u_numhead = 0) => NothingDone(u_undo(St, 1))
  /\ b_u_curhead = 0 => NothingDone(u_redo(St, 1))

\* Every change of a tree of two headers is undone and "u" is given again;
\* there are changes and nothing to redo and CTRL-R is given.
C35_Witness ==
  /\ p_ul > 0
  /\ b_u_numhead >= 2
  /\ \/ /\ b_u_curhead # 0
        /\ uh[b_u_curhead].uh_next = 0
        /\ NothingDone(u_undo(St, 1))
        /\ u_undo(St, 1).b_u_curhead = b_u_oldhead
     \/ /\ b_u_curhead = 0
        /\ b_u_synced
        /\ NothingDone(u_redo(St, 1))

\* ---------------------------------------------------------------- C36
\* Every entry of every header ends below its top, or at the end of the
\* buffer (ue_bot == 0).
EntriesInOrder ==
  \A h \in Live : \A i \in 1 .. Len(uh[h].uh_entry) :
    uh[h].uh_entry[i].ue_bot = 0 \/ uh[h].uh_entry[i].ue_top < uh[h].uh_entry[i].ue_bot

\* The entry of b_u_newhead that waits for its ue_bot, 0 when there is none.
GetbotEntry == IF b_u_newhead = 0 THEN 0 ELSE uh[b_u_newhead].uh_getbot_entry

\* u_getbot() has given the waiting entry the ue_bot that follows from the
\* lines added or deleted since the save, and it is a line of the buffer or
\* the line after the last.
BotComputed(s) ==
  LET uep == uh[b_u_newhead].uh_entry[GetbotEntry]
      bot == s.uh[b_u_newhead].uh_entry[GetbotEntry].ue_bot
  IN /\ ~s.err
     /\ s.uh[b_u_newhead].uh_getbot_entry = 0
     /\ bot = uep.ue_top + uep.ue_size + 1 + (ml_line_count(St) - uep.ue_lcount)
     /\ 1 <= bot /\ bot <= ml_line_count(St) + 1
     /\ uep.ue_top < bot

\* C36: with every change made in the lines that were saved for it, the
\* entries of a synced tree have ue_bot == 0 or ue_top < ue_bot, and the
\* entry that u_getbot() completes gets ue_bot = ue_top + ue_size + 1 +
\* (line count - ue_lcount), which is at least 1 and at most line count + 1.
C36_BotInRange ==
  /\ b_u_synced => EntriesInOrder
  /\ ~b_u_synced /\ GetbotEntry > 0 => BotComputed(u_getbot(St))

\* Lines were deleted since the save whose entry waits for its ue_bot.
C36_Witness ==
  /\ ~b_u_synced
  /\ GetbotEntry > 0
  /\ uh[b_u_newhead].uh_entry[GetbotEntry].ue_lcount > ml_line_count(St)
  /\ BotComputed(u_getbot(St))

\* ---------------------------------------------------------------- C37
\* The calls of undo_time(): ":undo N", ":earlier N", ":later N" and the
\* same with "f".
TimeCalls ==
  {[step |-> n, file |-> FALSE, absolute |-> TRUE] : n \in 0 .. MaxHdr + 1}
  \cup {[step |-> n, file |-> f, absolute |-> FALSE] : n \in RelSteps, f \in BOOLEAN}

RECURSIVE UpFrom(_, _)
\* The header h and the headers above it, through uh_next, in the state s.
UpFrom(s, h) == IF h = 0 THEN {} ELSE {h} \cup UpFrom(s, s.uh[h].uh_next)

\* The changes the text of the state s has in it: the header "u" undoes next
\* and the headers above it.
AppliedHeaders(s) ==
  UpFrom(s, IF s.b_u_curhead = 0 THEN s.b_u_newhead ELSE s.uh[s.b_u_curhead].uh_next)

\* The header h, which undo_time() has redone, is the first of its
\* alternatives in the state s, and k times "u" and k times CTRL-R from s
\* come back to the text and the b_u_seq_cur of s.
BranchMadeFirst(s, h) ==
  /\ s.uh[h].uh_alt_prev = 0
  /\ IF s.uh[h].uh_next # 0 THEN s.uh[s.uh[h].uh_next].uh_prev = h
     ELSE s.b_u_oldhead = h
  /\ \A k \in 1 .. 2 :
       k <= Cardinality(AppliedHeaders(s)) =>
         LET r == u_redo(u_undo(s, k), k)
         IN r.lines = s.lines /\ r.b_u_seq_cur = s.b_u_seq_cur

Installed == 1 .. nalloc

\* C38: after u_read_undo() has taken the tree of a file, every uh_prev,
\* uh_next, uh_alt_prev and uh_alt_next of every header it installed is NULL
\* or one of those headers, and so are b_u_oldhead, b_u_newhead and
\* b_u_curhead.
C38_AsStated ==
  /\ \A h \in Installed :
       {uh[h].uh_next, uh[h].uh_prev, uh[h].uh_alt_next, uh[h].uh_alt_prev}
         \subseteq Installed \cup {0}
  /\ {b_u_oldhead, b_u_newhead, b_u_curhead} \subseteq Installed \cup {0}

\* One header was installed, with the number of a header that is not in the
\* file left in its uh_next.
C38_Witness ==
  /\ nalloc = 1
  /\ b_u_numhead = 1
  /\ uh[1].live
  /\ uh[1].uh_seq = 1
  /\ uh[1].uh_next = WildPtr(2)

\* ---------------------------------------------------------------- C39
\* C39: whenever b_u_synced is false, b_u_curhead is NULL: no state has an
\* open header together with a position to redo from.
C39_OpenHeaderNoCurhead == ~b_u_synced => b_u_curhead = 0

\* A header is open after :undojoin, made when a change had been undone and a
\* new change had taken the place to redo from.
C39_Witness ==
  /\ ~b_u_synced
  /\ joinst = 1
  /\ b_u_numhead = 2
  /\ b_u_newhead # 0
  /\ uh[b_u_newhead].uh_alt_next # 0

\* ---------------------------------------------------------------- C40
\* C40: with 'undolevels' 0 and no 'u' in 'cpoptions', where there is a change
\* to undo: the second of two u_undo() in a row applies the header of the
\* first again, so the lines are those before the first one, b_u_curhead stays
\* on the header and b_u_seq_cur is 0 after both; u_redo() after either of
\* them does nothing.
C40_ViUndoTwice ==
  (p_ul = 0 /\ ~cpo_u /\ b_u_numhead > 0) =>
    LET u1 == u_undo(St, 1)
        u2 == u_undo(u1, 1)
        r1 == u_redo(u1, 1)
        r2 == u_redo(u2, 1)
    IN /\ u1.cnt = 1 /\ u2.cnt = 1
       /\ u1.b_u_curhead # 0
       /\ b_u_curhead = 0 => u1.b_u_curhead = u_sync(St).b_u_newhead
       /\ u2.b_u_curhead = u1.b_u_curhead
       /\ b_u_curhead = 0 => u1.lines = before[u1.b_u_curhead]
       /\ u2.lines = lines
       /\ u1.b_u_seq_cur = 0 /\ u2.b_u_seq_cur = 0
       /\ r1.cnt = 0 /\ r1.lines = u1.lines /\ r1.b_u_curhead = u1.b_u_curhead
       /\ r2.cnt = 0 /\ r2.lines = u2.lines /\ r2.b_u_curhead = u2.b_u_curhead

\* A change was made with 'undolevels' 0 and undone once: the header is the
\* one to undo again.
C40_Witness ==
  /\ p_ul = 0 /\ ~cpo_u
  /\ b_u_numhead = 1
  /\ b_u_synced
  /\ b_u_curhead # 0
  /\ b_u_curhead = b_u_newhead
  /\ b_u_seq_cur = 0
  /\ lines # u_undo(St, 1).lines

\* ----------------------------------------------------------------- C9
\* C9: when a write fails after the undo file was created (serialize_header,
\* a serialize_uhp, the end marker or the fsync), no undo file is there when
\* u_write_undo() returns.
C9_AsStated ==
  \A fault \in WriteFaults(St) \ {0} : ~u_write_undo(St, u_compute_hash(St), fault).exists

\* Two headers are to be written and the write of the second fails: the file
\* stays, with the first header in it and no end marker.
C9_Witness ==
  /\ b_u_numhead = 2
  /\ Len(WrittenHeaders(St).hdrs) = 2
  /\ LET w == u_write_undo(St, u_compute_hash(St), 3)
     IN w.exists /\ ~w.write_ok /\ Len(w.file.tab) = 1 /\ w.file.end = << >>

\* ----------------------------------------------------------------- C6
\* uh_seq of the header a pointer is for, 0 for NULL.
SeqOf(s, uhp) == IF uhp = 0 THEN 0 ELSE s.uh[uhp].uh_seq

\* The tree after u_write_undo(): it was synced.
WrittenTree == u_sync(St)

\* The tree that u_read_undo() makes of the file that u_write_undo() wrote,
\* in the buffer after u_clearallandblockfree(), with the hash of the same text.
ReadBack ==
  LET t == WrittenTree
  IN u_read_undo(u_clearallandblockfree(t),
                 u_write_undo(t, u_compute_hash(t), 0).file, u_compute_hash(t))

\* Header g of r is header h of t: the same numbers, cursor and entries, and
\* links to the headers with the same uh_seq.
SameHeader(t, h, r, g) ==
  /\ r.uh[g].live
  /\ r.uh[g].uh_seq = t.uh[h].uh_seq
  /\ r.uh[g].uh_time = t.uh[h].uh_time
  /\ r.uh[g].uh_save_nr = t.uh[h].uh_save_nr
  /\ r.uh[g].uh_flags = t.uh[h].uh_flags
  /\ r.uh[g].uh_cursor = t.uh[h].uh_cursor
  /\ r.uh[g].uh_cursor_vcol = t.uh[h].uh_cursor_vcol
  /\ r.uh[g].uh_entry = t.uh[h].uh_entry
  /\ r.uh[g].uh_next \in HdrIds \cup {0}
  /\ r.uh[g].uh_prev \in HdrIds \cup {0}
  /\ r.uh[g].uh_alt_next \in HdrIds \cup {0}
  /\ r.uh[g].uh_alt_prev \in HdrIds \cup {0}
  /\ SeqOf(r, r.uh[g].uh_next) = SeqOf(t, t.uh[h].uh_next)
  /\ SeqOf(r, r.uh[g].uh_prev) = SeqOf(t, t.uh[h].uh_prev)
  /\ SeqOf(r, r.uh[g].uh_alt_next) = SeqOf(t, t.uh[h].uh_alt_next)
  /\ SeqOf(r, r.uh[g].uh_alt_prev) = SeqOf(t, t.uh[h].uh_alt_prev)

GoodFile == u_write_undo(St, u_compute_hash(St), 0).file

\* Files that u_read_undo() is to refuse: the file of the buffer with another
\* start magic, another version, the hash of another text, another line count,
\* another number of headers, another end marker, another marker after the
\* entries of the first header, the uh_seq of the first header in the second
\* one, and the file as a write that failed leaves it.
RefusedFiles ==
  LET g == GoodFile
      n == Len(g.tab)
  IN {[g EXCEPT !.head.magic = "Vim"],
      [g EXCEPT !.head.version = undo_write_bytes(UF_VERSION - 1, 2)],
      [g EXCEPT !.head.hash = Tail(@)],
      [g EXCEPT !.head.line_count = undo_write_bytes(ml_line_count(St) + 1, 4)],
      [g EXCEPT !.head.num_head = undo_write_bytes(n + 1, 4)],
      [g EXCEPT !.head.num_head = undo_write_bytes(n - 1, 4)],
      [g EXCEPT !.end = undo_write_bytes(UF_ENTRY_END_MAGIC, 2)],
      [g EXCEPT !.tab[1].entry_end = undo_write_bytes(UF_HEADER_END_MAGIC, 2)],
      [g EXCEPT !.tab[n].uh_seq = g.tab[1].uh_seq,
                !.head.num_head = IF n = 1 THEN undo_write_bytes(0, 4) ELSE @]}
     \cup {u_write_undo(St, u_compute_hash(St), k).file : k \in 1 .. n + 2}

\* C8: when u_read_undo() fails (start magic, version, hash or line count,
\* truncation, header or entry magic, number of headers, duplicate uh_seq),
\* the tree, its heads and counters, b_u_synced and the line saved for "U" are
\* as before the call.
C8_FailedReadKeepsTree ==
  b_u_numhead > 0 =>
    \A f \in RefusedFiles :
      LET r == u_read_undo(St, f, u_compute_hash(St))
      IN r.ret = "FAIL" /\ [r EXCEPT !.ret = "OK"] = St

\* A buffer with two headers, an open one, and a line saved for "U": its own
\* file with the uh_seq of the first header in the second one is refused.
C8_Witness ==
  /\ b_u_numhead = 2
  /\ ~b_u_synced
  /\ b_u_line_ptr # NoLine
  /\ Len(GoodFile.tab) = 2
  /\ u_read_undo(St, [GoodFile EXCEPT !.tab[2].uh_seq = GoodFile.tab[1].uh_seq],
                 u_compute_hash(St)).ret = "FAIL"

\* ----------------------------------------------------------------- C7
\* The header of the tree read back that has the uh_seq of header h.
ReadBackOf(r, h) == CHOOSE g \in HdrIds : r.uh[g].live /\ r.uh[g].uh_seq = uh[h].uh_seq

\* The objects of a header that serialize_extmark() writes.
WrittenObjects(q) == SelectSeq(q, LAMBDA x : x.type \in {kExtmarkSplice, kExtmarkMove})

\* C7 as stated: after u_write_undo() and u_read_undo() every header has its
\* extmark undo objects, whatever their type, in the same order.
C7_AsStated ==
  b_u_numhead > 0 =>
    LET r == ReadBack
    IN /\ r.ret = "OK"
       /\ \A h \in HdrIds : uh[h].live => r.uh[ReadBackOf(r, h)].uh_extmark = uh[h].uh_extmark

\* C7: after u_write_undo() and u_read_undo() every header has its splices and
\* moves in the same order, and no other extmark undo object.
C7_SplicesAndMoves ==
  b_u_numhead > 0 =>
    LET r == ReadBack
    IN /\ r.ret = "OK"
       /\ \A h \in HdrIds : uh[h].live =>
            r.uh[ReadBackOf(r, h)].uh_extmark = WrittenObjects(uh[h].uh_extmark)

\* A header has a move and then a splice, another one a saved position.
C7_Witness ==
  /\ b_u_numhead = 2
  /\ \E h \in HdrIds :
       /\ uh[h].live
       /\ Len(uh[h].uh_extmark) = 2
       /\ uh[h].uh_extmark[1].type = kExtmarkMove
       /\ uh[h].uh_extmark[2].type = kExtmarkSplice
  /\ \E h \in HdrIds :
       /\ uh[h].live
       /\ Len(uh[h].uh_extmark) = 1
       /\ uh[h].uh_extmark[1].type = kExtmarkSavePos
  /\ ReadBack.ret = "OK"

====
